---- MODULE Spec2Model ----
(***************************************************************************)
(* RayQuant: the Portfolio (cash, positions, trade log), its valuation     *)
(* against the bar table, and the simulation loop of the BackTester.       *)
(*                                                                         *)
(* Money and prices are integers (the smallest currency unit); a cost      *)
(* price is an exact fraction [num, den] in lowest terms, because the      *)
(* weighted cost basis of the code is a quotient.                          *)
(***************************************************************************)
EXTENDS Integers, Sequences, FiniteSets, TLC

\* ------------------------------------------------------------------ bounds

\* The longest trade log explored: a call or step that could grow the log
\* beyond it is not taken.
MaxLog == 3

\* The longest trade log a portfolio may bring into a run of the simulation
\* loop.
MaxPreRun == 1

\* ------------------------------------------------------------ input domains

Symbols == {"600000.SH", "688001"}

\* Dates 1 .. 3 have bars; date 4 has none.
Dates == {1, 2, 3, 4}

Quantities == {100, 200}

TradePrices == {1, 2}

\* Portfolio(initial_cash=...)
InitialCashes == {300, 400}

\* Rows of an order handed directly to Portfolio.buy / Portfolio.sell.
OrderLens == {1, 2}

\* ------------------------------------------------------------- fractions

RECURSIVE GCD(_, _)
GCD(a, b) == IF b = 0 THEN a ELSE GCD(b, a % b)

\* n/d in lowest terms (n >= 0, d > 0).
Frac(n, d) == LET g == GCD(n, d) IN [num |-> n \div g, den |-> d \div g]

FromInt(n) == [num |-> n, den |-> 1]

FracAdd(x, y) == Frac(x.num * y.den + y.num * x.den, x.den * y.den)

FracTimes(k, x) == Frac(k * x.num, x.den)

\* ------------------------------------------------------------------ state

VARIABLES
  cash,        \* Portfolio.cash
  asset,       \* Portfolio.asset: rows [asset, quantity, cost_price, current_price]
  trade_log,   \* Portfolio.trade_log: rows [asset, trade_date, trade_qty, trade_price]
  bar_df,      \* Datahub.bar_df: rows [trade_date, symbol, close], sorted by index
  benchmark_df, \* Datahub.benchmark_df: rows [trade_date, symbol, close]
  call,        \* the last Portfolio call: what was called, on what, and how it ended
  pc,          \* BackTester: where run_backtest_without_broker stands
  dt_idx,      \* BackTester: position of dt in the timeline
  orders,      \* BackTester: the order list of the current step
  order_idx,   \* BackTester: position of `row` in orders.df
  results,     \* Observer.results: rows [date, total_value, cash]
  benchmark_results, \* Observer.benchmark_results: rows [date, values]
  step,        \* the portfolio when the current step began
  _rate,       \* utils.indicators._rate, the module global win_rate writes
  initial_portfolio_value  \* Observer.initial_portfolio_value: <<>> is None

vars == <<cash, asset, trade_log, bar_df, benchmark_df, call, pc, dt_idx,
          orders, order_idx, results, benchmark_results, step, _rate,
          initial_portfolio_value>>

\* The tables of the Datahub.
data_vars == <<bar_df, benchmark_df>>

portfolio_vars == <<cash, asset, trade_log>>

run_vars == <<pc, dt_idx, orders, order_idx, results, benchmark_results, step,
              initial_portfolio_value>>

\* The Portfolio object as one value.
PF == [cash |-> cash, asset |-> asset, trade_log |-> trade_log]

\* Portfolio.__init__
NewPortfolio(initial_cash) ==
  [cash |-> initial_cash, asset |-> <<>>, trade_log |-> <<>>]

\* ------------------------------------------------------------------ orders

\* One row of Order.df.
OrderRow(d, a, s, q, p) ==
  [date |-> d, asset |-> a, side |-> s, quantity |-> q, trade_price |-> p]

OrderRows(d, s) ==
  {OrderRow(d, a, s, q, p) : a \in Symbols, q \in Quantities, p \in TradePrices}

\* The orders of one side and one date.
OrdersOf(d, s) == UNION {[1..n -> OrderRows(d, s)] : n \in OrderLens}

\* --------------------------------------------------------------- Portfolio

\* self.asset[mask].index[0], 0 when self.asset[mask] is empty
IndexOf(book, a) ==
  LET hits == {i \in 1..Len(book) : book[i].asset = a}
  IN IF hits = {} THEN 0 ELSE CHOOSE i \in hits : \A j \in hits : i <= j

\* A variant: a position sold out stays in the book with quantity 0.
DropRowKeepsEmpty(book, idx) == [book EXCEPT ![idx].quantity = 0]

\* self.asset.drop(idx).reset_index(drop=True)
DropRow(book, idx) ==
  [i \in 1..(Len(book) - 1) |-> IF i < idx THEN book[i] ELSE book[i + 1]]

\* A variant: the cost basis is the plain mean of the old cost and the new
\* price, the quantities ignored.
WeightedCostUnweighted(old_quantity, old_cost_price, quantity, trade_price) ==
  Frac(old_cost_price.num + trade_price * old_cost_price.den,
       2 * old_cost_price.den)

\* (old_quantity * old_cost_price + quantity * trade_price) / new_quantity
WeightedCost(old_quantity, old_cost_price, quantity, trade_price) ==
  Frac(old_quantity * old_cost_price.num + quantity * trade_price * old_cost_price.den,
       old_cost_price.den * (old_quantity + quantity))

\* A variant: the log row keeps the size of the trade and drops its sign.
TradeRowUnsigned(a, d, q, p) ==
  [asset |-> a, trade_date |-> d, trade_qty |-> IF q < 0 THEN 0 - q ELSE q,
   trade_price |-> p]

\* One row of the trade log: trade_qty is negative for a sell.
TradeRow(a, d, q, p) ==
  [asset |-> a, trade_date |-> d, trade_qty |-> q, trade_price |-> p]

\* A variant: the cost of a buy counts the shares and forgets the price.
TotalCostOfShares(row) == row.quantity

\* total_cost = quantity * trade_price
TotalCost(row) == row.quantity * row.trade_price

\* A variant: the buy does not look at the cash.
InsufficientCashUnchecked(cash_now, total_cost) == FALSE

\* A variant: a buy that would take all the cash is refused too.
InsufficientCashAtEqual(cash_now, total_cost) == cash_now <= total_cost

\* if self.cash < total_cost: raise
InsufficientCash(cash_now, total_cost) == cash_now < total_cost

\* One iteration of the loop of Portfolio.buy: the portfolio after the row, or
\* the portfolio untouched by this row and the error it raised.
BuyRow(pf, row) ==
  IF "trade_price" \notin DOMAIN row
  THEN [pf |-> pf, err |-> "missing_trade_price"]
  ELSE
  LET total_cost == TotalCost(row)
      idx_existing == IndexOf(pf.asset, row.asset)
      new_quantity == pf.asset[idx_existing].quantity + row.quantity
      new_cost_price == WeightedCost(pf.asset[idx_existing].quantity,
                                     pf.asset[idx_existing].cost_price,
                                     row.quantity, row.trade_price)
      book == IF idx_existing = 0
              THEN Append(pf.asset, [asset |-> row.asset,
                                     quantity |-> row.quantity,
                                     cost_price |-> FromInt(row.trade_price),
                                     current_price |-> FromInt(row.trade_price)])
              ELSE [pf.asset EXCEPT ![idx_existing] =
                      [asset |-> row.asset,
                       quantity |-> new_quantity,
                       cost_price |-> new_cost_price,
                       current_price |-> new_cost_price]]
  IN IF InsufficientCash(pf.cash, total_cost)
     THEN [pf |-> pf, err |-> "insufficient_cash"]
     ELSE [pf |-> [cash |-> pf.cash - total_cost,
                   asset |-> book,
                   trade_log |-> Append(pf.trade_log,
                                        TradeRow(row.asset, row.date,
                                                 row.quantity, row.trade_price))],
           err |-> "none"]

\* A variant: a sell of the whole holding is refused too.
InsufficientQuantityAtEqual(quantity, current_quantity) ==
  quantity >= current_quantity

\* if quantity > current_quantity: raise
InsufficientQuantity(quantity, current_quantity) == quantity > current_quantity

\* A variant: a sell credits the shares and forgets the price.
ProceedsOfShares(row) == row.quantity

\* self.cash += quantity * trade_price
Proceeds(row) == row.quantity * row.trade_price

\* One iteration of the loop of Portfolio.sell.
SellRow(pf, row) ==
  IF "trade_price" \notin DOMAIN row
  THEN [pf |-> pf, err |-> "missing_trade_price"]
  ELSE
  LET idx_existing == IndexOf(pf.asset, row.asset)
      current_quantity == pf.asset[idx_existing].quantity
      new_quantity == current_quantity - row.quantity
      book == IF new_quantity = 0
              THEN DropRow(pf.asset, idx_existing)
              ELSE [pf.asset EXCEPT ![idx_existing] =
                      [@ EXCEPT !.quantity = new_quantity,
                                !.current_price = FromInt(row.trade_price)]]
  IN IF idx_existing = 0
     THEN [pf |-> pf, err |-> "unknown_position"]
     ELSE IF InsufficientQuantity(row.quantity, current_quantity)
     THEN [pf |-> pf, err |-> "insufficient_quantity"]
     ELSE [pf |-> [cash |-> pf.cash + Proceeds(row),
                   asset |-> book,
                   trade_log |-> Append(pf.trade_log,
                                        TradeRow(row.asset, row.date,
                                                 -row.quantity, row.trade_price))],
           err |-> "none"]

\* for _, row in order.get().iterrows(): rows i .. Len(rows), in order; the
\* first row that raises ends the call, with the rows before it applied.
RECURSIVE BuyRows(_, _, _)
BuyRows(pf, rows, i) ==
  IF i > Len(rows)
  THEN [pf |-> pf, err |-> "none", applied |-> Len(rows)]
  ELSE LET r == BuyRow(pf, rows[i])
       IN IF r.err # "none"
          THEN [pf |-> pf, err |-> r.err, applied |-> i - 1]
          ELSE BuyRows(r.pf, rows, i + 1)

RECURSIVE SellRows(_, _, _)
SellRows(pf, rows, i) ==
  IF i > Len(rows)
  THEN [pf |-> pf, err |-> "none", applied |-> Len(rows)]
  ELSE LET r == SellRow(pf, rows[i])
       IN IF r.err # "none"
          THEN [pf |-> pf, err |-> r.err, applied |-> i - 1]
          ELSE SellRows(r.pf, rows, i + 1)

\* Portfolio.buy(order)
PortfolioBuy(pf, order) == BuyRows(pf, order, 1)

\* Portfolio.sell(order)
PortfolioSell(pf, order) == SellRows(pf, order, 1)

\* ------------------------------------------------------------------ Datahub

BarRow(d, s, c) == [trade_date |-> d, symbol |-> s, close |-> c]

\* The bar table as one daily file loads it (set_index, sort_index): sorted by
\* (trade_date, symbol), one row per (trade_date, symbol). Date 1 quotes both
\* symbols at different closes, and so does date 3; date 2 quotes "688001"
\* alone, date 4 nothing.
DailyBars ==
  << BarRow(1, "600000.SH", 1), BarRow(1, "688001", 2),
     BarRow(2, "688001", 1),
     BarRow(3, "600000.SH", 2), BarRow(3, "688001", 1) >>

\* The benchmark table as one benchmark file loads it: the index quoted on
\* dates 1 and 3, not on date 2.
BenchmarkBars == << BarRow(1, "000300.SH", 1), BarRow(3, "000300.SH", 2) >>

\* The rows of seq that satisfy Keep, in their order.
RECURSIVE SelectRows(_, _, _)
SelectRows(rows, i, keep) ==
  IF i > Len(rows) THEN <<>>
  ELSE IF rows[i] \in keep
       THEN <<rows[i]>> \o SelectRows(rows, i + 1, keep)
       ELSE SelectRows(rows, i + 1, keep)

\* The trade dates of the index never step back from one row to the next: the
\* index is sorted on its first level, as a label slice of it requires.
DateSorted(df) ==
  \A i \in 1..Len(df) : \A j \in i..Len(df) : df[i].trade_date <= df[j].trade_date

\* Datahub.get_bars(current_date=d): df.loc[slice(d, d)]; the slice of an
\* index that is not sorted raises a KeyError, which get_bars answers with an
\* empty frame.
GetBars(df, current_date) ==
  IF ~DateSorted(df) THEN <<>>
  ELSE SelectRows(df, 1,
                  {r \in {df[i] : i \in 1..Len(df)} : r.trade_date = current_date})

\* --------------------------------------------------------------- valuation

\* Portfolio.get_asset_value: the loop over self.asset, from row i on.
RECURSIVE AssetValueFrom(_, _, _)
AssetValueFrom(book, df_bar, i) ==
  IF i > Len(book) THEN FromInt(0)
  ELSE LET price == IF df_bar = <<>>
                    THEN book[i].current_price
                    ELSE FromInt(df_bar[1].close)
       IN FracAdd(FracTimes(book[i].quantity, price),
                  AssetValueFrom(book, df_bar, i + 1))

\* Portfolio.get_asset_value(current_date, data)
GetAssetValue(pf, current_date, df) ==
  AssetValueFrom(pf.asset, GetBars(df, current_date), 1)

\* Portfolio.total_value(current_date, data)
TotalValue(pf, current_date, df) ==
  FracAdd(FromInt(pf.cash), GetAssetValue(pf, current_date, df))

\* ----------------------------------------------------------------- actions

\* A module global no statement has assigned yet.
Unset == <<>>

NoCall ==
  [op |-> "none", order |-> <<>>, err |-> "none", applied |-> 0,
   pre |-> NewPortfolio(0), date |-> 0, value |-> FromInt(0)]

Init ==
  /\ \E c \in InitialCashes :
       /\ cash = c
       /\ step = NewPortfolio(c)
  /\ asset = <<>>
  /\ trade_log = <<>>
  /\ bar_df = DailyBars
  /\ benchmark_df = BenchmarkBars
  /\ call = NoCall
  /\ pc = "NotStarted"
  /\ dt_idx = 0
  /\ orders = <<>>
  /\ order_idx = 0
  /\ results = <<>>
  /\ benchmark_results = <<>>
  /\ _rate = Unset
  /\ initial_portfolio_value = Unset

\* Callers trade on the Portfolio before it is handed to a run of the
\* simulation loop.
RunBegun == pc # "NotStarted"

\* A caller hands `order` to Portfolio.buy.
Buy(order) ==
  /\ ~RunBegun
  /\ Len(trade_log) + Len(order) <= MaxLog
  /\ LET r == PortfolioBuy(PF, order)
     IN /\ cash' = r.pf.cash
        /\ asset' = r.pf.asset
        /\ trade_log' = r.pf.trade_log
        /\ call' = [op |-> "buy", order |-> order, err |-> r.err,
                    applied |-> r.applied, pre |-> PF, date |-> 0,
                    value |-> FromInt(0)]
  /\ UNCHANGED <<data_vars, _rate, run_vars>>

\* A caller hands `order` to Portfolio.sell.
Sell(order) ==
  /\ ~RunBegun
  /\ Len(trade_log) + Len(order) <= MaxLog
  /\ LET r == PortfolioSell(PF, order)
     IN /\ cash' = r.pf.cash
        /\ asset' = r.pf.asset
        /\ trade_log' = r.pf.trade_log
        /\ call' = [op |-> "sell", order |-> order, err |-> r.err,
                    applied |-> r.applied, pre |-> PF, date |-> 0,
                    value |-> FromInt(0)]
  /\ UNCHANGED <<data_vars, _rate, run_vars>>

\* A caller asks Portfolio.total_value(current_date, data).
Value(current_date) ==
  /\ ~RunBegun
  /\ call' = [op |-> "total_value", order |-> <<>>, err |-> "none",
              applied |-> 0, pre |-> PF, date |-> current_date,
              value |-> TotalValue(PF, current_date, bar_df)]
  /\ UNCHANGED <<portfolio_vars, data_vars, _rate, run_vars>>

\* The date a caller's order carries: callers trade day after day, the day
\* counted from the trades made so far.
Today == Len(trade_log) + 1

BuyCall == \E order \in OrdersOf(Today, "BUY") : Buy(order)

SellCall == \E order \in OrdersOf(Today, "SELL") : Sell(order)

ValueCall == \E d \in Dates : Value(d)

\* ------------------------------------------------------------- the run

\* The characters of a symbol code.
Chars(symbol) ==
  CASE symbol = "600000.SH" -> <<"6", "0", "0", "0", "0", "0", ".", "S", "H">>
    [] symbol = "688001"    -> <<"6", "8", "8", "0", "0", "1">>
    [] symbol = "688001.SH" -> <<"6", "8", "8", "0", "0", "1", ".", "S", "H">>
    [] symbol = "000688"    -> <<"0", "0", "0", "6", "8", "8">>

Digits == {"0", "1", "2", "3", "4", "5", "6", "7", "8", "9"}

\* str.isdigit()
IsDigit(symbol) ==
  /\ Len(Chars(symbol)) > 0
  /\ \A i \in 1..Len(Chars(symbol)) : Chars(symbol)[i] \in Digits

\* str.startswith(prefix), prefix given by its characters
StartsWith(symbol, prefix) ==
  /\ Len(Chars(symbol)) >= Len(prefix)
  /\ \A i \in 1..Len(prefix) : Chars(symbol)[i] = prefix[i]

\* get_min_lot(asset)
get_min_lot(a) ==
  IF IsDigit(a) /\ StartsWith(a, <<"6", "8", "8">>) THEN 200 ELSE 100

\* Timeline.get_main_timeline: bar_df.index.get_level_values(0).unique(), the
\* dates in the order of their first row.
RECURSIVE UniqueDates(_, _)
UniqueDates(df, i) ==
  IF i > Len(df) THEN <<>>
  ELSE IF \E j \in 1..(i - 1) : df[j].trade_date = df[i].trade_date
       THEN UniqueDates(df, i + 1)
       ELSE <<df[i].trade_date>> \o UniqueDates(df, i + 1)

MainTimeline(df) == UniqueDates(df, 1)

\* Datahub.get_bar(current_date=dt): the snapshot of one date.
GetBar(df, current_date) == GetBars(df, current_date)

\* A variant: the close of the first row of the snapshot, whatever its symbol.
CloseOfFirstRow(current_prices, current_time, symbol) == current_prices[1].close

\* current_prices.loc[(current_time, symbol), 'close']
CloseOf(current_prices, current_time, symbol) ==
  LET hit == CHOOSE i \in 1..Len(current_prices) :
               /\ current_prices[i].trade_date = current_time
               /\ current_prices[i].symbol = symbol
  IN current_prices[hit].close

SignalRow(d, s, sig) == [trade_date |-> d, symbol |-> s, signal |-> sig]

\* Strategy.generate_signals(dt), for any Strategy: one row per symbol quoted
\* on dt, in the order of the bar table, each BUY, SELL or no signal.
SignalsAt(df, dt) ==
  LET bars == GetBars(df, dt)
  IN {[i \in 1..Len(bars) |-> SignalRow(dt, bars[i].symbol, f[i])] :
        f \in [1..Len(bars) -> {"BUY", "SELL", "NONE"}]}

\* The SELL orders of transform_signals_to_orders, from signal row i on.
RECURSIVE SellOrders(_, _, _, _, _)
SellOrders(signals, pf, current_prices, current_time, i) ==
  IF i > Len(signals) THEN <<>>
  ELSE LET symbol == signals[i].symbol
           idx == IndexOf(pf.asset, symbol)
           rest == SellOrders(signals, pf, current_prices, current_time, i + 1)
       IN IF signals[i].signal = "SELL" /\ idx # 0 /\ pf.asset[idx].quantity > 0
          THEN <<OrderRow(current_time, symbol, "SELL", pf.asset[idx].quantity,
                          CloseOf(current_prices, current_time, symbol))>> \o rest
          ELSE rest

\* A variant: the shares the allocated cash pays for, not floored to a lot.
BuyQuantityUnfloored(cash_now, num_buy, close_price, min_lot) ==
  cash_now \div (num_buy * close_price)

\* int(raw_qty // min_lot) * min_lot with raw_qty = (cash / num_buy) / close_price,
\* for a whole cash and a whole close: there the float quotient lies on a lot
\* boundary only when the division is exact, and the floor of the floats is
\* the floor of the numbers. A close in hundredths is FloatBuyQuantity's.
BuyQuantity(cash_now, num_buy, close_price, min_lot) ==
  (cash_now \div (num_buy * close_price * min_lot)) * min_lot

\* The BUY orders of transform_signals_to_orders, from signal row i on.
RECURSIVE BuyOrders(_, _, _, _, _, _)
BuyOrders(signals, pf, current_prices, current_time, num_buy, i) ==
  IF i > Len(signals) THEN <<>>
  ELSE LET symbol == signals[i].symbol
           close_price == CloseOf(current_prices, current_time, symbol)
           min_lot == get_min_lot(symbol)
           order_qty == BuyQuantity(pf.cash, num_buy, close_price, min_lot)
           rest == BuyOrders(signals, pf, current_prices, current_time, num_buy, i + 1)
       IN IF signals[i].signal = "BUY" /\ order_qty >= min_lot
          THEN <<OrderRow(current_time, symbol, "BUY", order_qty, close_price)>> \o rest
          ELSE rest

\* A variant: the BUY orders are listed before the SELL orders.
TransformBuysFirst(signals, pf, df, current_time) ==
  LET current_prices == GetBar(df, current_time)
      num_buy == Cardinality({i \in 1..Len(signals) : signals[i].signal = "BUY"})
  IN (IF num_buy > 0 /\ pf.cash > 0
      THEN BuyOrders(signals, pf, current_prices, current_time, num_buy, 1)
      ELSE <<>>)
     \o SellOrders(signals, pf, current_prices, current_time, 1)

\* EqualWeightPositionManager.transform_signals_to_orders
TransformSignalsToOrders(signals, pf, df, current_time) ==
  LET current_prices == GetBar(df, current_time)
      num_buy == Cardinality({i \in 1..Len(signals) : signals[i].signal = "BUY"})
  IN SellOrders(signals, pf, current_prices, current_time, 1)
     \o (IF num_buy > 0 /\ pf.cash > 0
         THEN BuyOrders(signals, pf, current_prices, current_time, num_buy, 1)
         ELSE <<>>)

\* orders.df[(orders.df['side'] == side) & (orders.df['asset'] == asset)]
OrdersFor(order_rows, side, a) ==
  SelectRows(order_rows, 1,
             {r \in {order_rows[i] : i \in 1..Len(order_rows)} :
                r.side = side /\ r.asset = a})

\* round(x) of Python: to the nearest integer, a tie to the even one.
Round(x) ==
  LET q == x.num \div x.den
      r == x.num % x.den
  IN IF 2 * r < x.den THEN q
     ELSE IF 2 * r > x.den THEN q + 1
     ELSE IF q % 2 = 0 THEN q ELSE q + 1

\* benchmark_bars.groupby("symbol")["close"].first().to_dict()
BenchmarkValues(bars) ==
  [s \in {bars[i].symbol : i \in 1..Len(bars)} |->
     bars[CHOOSE i \in 1..Len(bars) :
            /\ bars[i].symbol = s
            /\ \A j \in 1..(i - 1) : bars[j].symbol # s].close]

\* Observer.record_benchmark(dt, benchmark_values)
RecordBenchmark(rows, dt, benchmark_values) ==
  Append(rows, [date |-> dt, values |-> benchmark_values])

\* A variant: the Observer keeps the latest record alone.
ObserverRecordLatest(rows, dt, total_value, cash_now, initial_value) ==
  LET first == IF initial_value = Unset THEN <<total_value>> ELSE initial_value
  IN IF first[1] = 0
     THEN [err |-> "zero_division", results |-> rows,
           initial_portfolio_value |-> first]
     ELSE [err |-> "none",
           results |-> <<[date |-> dt, total_value |-> total_value,
                          cash |-> cash_now]>>,
           initial_portfolio_value |-> first]

\* Observer.record(dt, total_value, cash), initial_value being
\* self.initial_portfolio_value before the call: the first call keeps its
\* total_value as the initial value, and every call divides total_value by
\* the initial value before it appends the row: an initial value of 0 raises
\* ZeroDivisionError, the row is not appended, the initial value stays.
ObserverRecord(rows, dt, total_value, cash_now, initial_value) ==
  LET first == IF initial_value = Unset THEN <<total_value>> ELSE initial_value
  IN IF first[1] = 0
     THEN [err |-> "zero_division", results |-> rows,
           initial_portfolio_value |-> first]
     ELSE [err |-> "none",
           results |-> Append(rows, [date |-> dt, total_value |-> total_value,
                                     cash |-> cash_now]),
           initial_portfolio_value |-> first]

\* ------------------------------------------------------------ indicators

\* round(x, 4) keeps 4 decimals: the nearest multiple of 1/Scale.
Scale == 10000

FracSub(x, y) == Frac(x.num * y.den - y.num * x.den, x.den * y.den)

\* n / d of two integers, d # 0.
FracDiv(n, d) == IF d < 0 THEN Frac(0 - n, 0 - d) ELSE Frac(n, d)

FracLess(x, y) == x.num * y.den < y.num * x.den

\* round(x, 4)
Round4(x) == Frac(Round(Frac(Scale * x.num, x.den)), Scale)

\* trade_log.groupby('asset')['trade_qty'].cumsum() at row i
RECURSIVE CumulativeQty(_, _, _)
CumulativeQty(log, i, j) ==
  IF j < 1 THEN 0
  ELSE (IF log[j].asset = log[i].asset THEN log[j].trade_qty ELSE 0)
         + CumulativeQty(log, i, j - 1)

\* The rows of closed_trades: the cumulative quantity is 0 at the row.
ClosedTrades(log) == {i \in 1..Len(log) : CumulativeQty(log, i, i) = 0}

\* closed_trades.groupby('asset')['trade_value'].sum() of asset a, from row i
RECURSIVE ClosedTradePnl(_, _, _)
ClosedTradePnl(log, a, i) ==
  IF i > Len(log) THEN 0
  ELSE (IF i \in ClosedTrades(log) /\ log[i].asset = a
        THEN log[i].trade_qty * log[i].trade_price ELSE 0)
         + ClosedTradePnl(log, a, i + 1)

\* trade_log.groupby('asset').tail(1) with cumulative_qty > 0
LastTradeWithPosition(log) ==
  {i \in 1..Len(log) :
     /\ \A j \in (i + 1)..Len(log) : log[j].asset # log[i].asset
     /\ CumulativeQty(log, i, i) > 0}

\* floating_profit of the open position whose last trade is row i
FloatingProfit(log, i, last_price) ==
  FracTimes(CumulativeQty(log, i, i),
            FracSub(last_price[log[i].asset], FromInt(log[i].trade_price)))

\* win_rate(trade_log, portfolio), the module global being rate_before;
\* last_price is portfolio.get_asset_last_price. The global is assigned when
\* a position is open at the end, and the return reads it.
WinRate(log, last_price, rate_before) ==
  IF log = <<>> THEN [err |-> "none", value |-> FromInt(0), rate |-> rate_before]
  ELSE
    LET closed_assets == {log[i].asset : i \in ClosedTrades(log)}
        closed_wins == {a \in closed_assets : ClosedTradePnl(log, a, 1) > 0}
        open == LastTradeWithPosition(log)
        floating_wins == {i \in open : FloatingProfit(log, i, last_price).num > 0}
        win_count == Cardinality(closed_wins) + Cardinality(floating_wins)
        total_count == Cardinality(closed_assets) + Cardinality(open)
        rate == IF open # {} THEN <<Frac(win_count, total_count)>> ELSE rate_before
    IN IF rate = Unset
       THEN [err |-> "name_error", value |-> FromInt(0), rate |-> rate]
       ELSE [err |-> "none", value |-> Round4(rate[1]), rate |-> rate]

\* The compounding periods of a year.
AnnualDays == 365

\* np.nan
NaN == [nan |-> TRUE, num |-> 0, den |-> 1]

\* What the operands of annual_return are: Python numbers, or the scalars of
\* a numeric pandas column.
ScalarKinds == {"python", "numpy"}

\* annual_return(start_value, end_value, total_days), df not given, on
\* operands of the kind `scalars`. The power base ** exponent is kept as its
\* two operands; its value is worked out where it is rational: an exponent
\* of 1, or a base of 1. total_days is a Python int: 365 / 0 raises. A
\* negative base with an exponent that is no whole number is a complex
\* number for Python numbers, which round() refuses with TypeError, and nan
\* for numpy scalars; 0 to a negative power raises ZeroDivisionError for
\* Python numbers and is inf for numpy scalars.
AnnualReturn(start_value, end_value, total_days, scalars) ==
  IF start_value > 0
  THEN IF total_days = 0
       THEN [err |-> "zero_division", base |-> FromInt(0), exponent |-> FromInt(0),
             value |-> <<>>]
       ELSE LET base == FracDiv(end_value, start_value)
                exponent == FracDiv(AnnualDays, total_days)
                raised == [err |-> "none", base |-> base, exponent |-> exponent,
                           value |-> <<>>]
            IN IF base.num < 0 /\ exponent.den # 1
               THEN IF scalars = "python"
                    THEN [raised EXCEPT !.err = "type_error"]
                    ELSE [raised EXCEPT !.value = <<NaN>>]
               ELSE IF base.num = 0 /\ exponent.num < 0
               THEN IF scalars = "python"
                    THEN [raised EXCEPT !.err = "zero_division"]
                    ELSE raised
               ELSE [raised EXCEPT
                       !.value = IF exponent = FromInt(1)
                                 THEN <<Round4(FracSub(base, FromInt(1)))>>
                                 ELSE IF base = FromInt(1) THEN <<FromInt(0)>>
                                 ELSE <<>>]
  ELSE [err |-> "none", base |-> FromInt(0), exponent |-> FromInt(0),
        value |-> <<FromInt(0)>>]

\* The calendar of pd.Timestamp for the dates of the model: day 1 is
\* 2025-01-01, and the years 2025 to 2027 have 365 days.
YearDays == 365

MonthDays == <<31, 28, 31, 30, 31, 30, 31, 31, 30, 31, 30, 31>>

YearOf(d) == (d - 1) \div YearDays

DayOfYear(d) == ((d - 1) % YearDays) + 1

RECURSIVE MonthOf(_, _)
MonthOf(day_of_year, m) ==
  IF day_of_year <= MonthDays[m] THEN [month |-> m, day |-> day_of_year]
  ELSE MonthOf(day_of_year - MonthDays[m], m + 1)

RECURSIVE DaysBefore(_)
DaysBefore(m) == IF m = 1 THEN 0 ELSE MonthDays[m - 1] + DaysBefore(m - 1)

\* d + pd.DateOffset(months=k): the same day of the month k months later,
\* or the last day of that month when it is shorter.
AddMonths(d, k) ==
  LET md == MonthOf(DayOfYear(d), 1)
      m0 == (md.month - 1) + k
      m == (m0 % 12) + 1
      day == IF md.day <= MonthDays[m] THEN md.day ELSE MonthDays[m]
  IN (YearOf(d) + (m0 \div 12)) * YearDays + DaysBefore(m) + day

\* df.sort_index(): the rows by date, rows of one date in their order.
SortIndex(rows) ==
  LET rank(i) == Cardinality({j \in 1..Len(rows) :
                                \/ rows[j].date < rows[i].date
                                \/ rows[j].date = rows[i].date /\ j <= i})
  IN [k \in 1..Len(rows) |-> rows[CHOOSE i \in 1..Len(rows) : rank(i) = k]]

\* A variant: the running maximum stays at the first value of the interval.
CumMaxFirst(data, j) == data[1].value

\* interval_data.cummax() at row j
RECURSIVE CumMax(_, _)
CumMax(data, j) ==
  IF j = 1 THEN data[1].value
  ELSE LET m == CumMax(data, j - 1)
       IN IF data[j].value > m THEN data[j].value ELSE m

\* dd_series.max(), from row j on
RECURSIVE MaxDd(_, _)
MaxDd(data, j) ==
  LET cummax == CumMax(data, j)
      dd == FracDiv(cummax - data[j].value, cummax)
  IN IF j = Len(data) THEN dd
     ELSE LET rest == MaxDd(data, j + 1)
          IN IF FracLess(dd, rest) THEN rest ELSE dd

\* The while loop of drawdown: the intervals from current_start on, each
\* with its drawdown.
RECURSIVE Intervals(_, _, _, _)
Intervals(asset_series, current_start, end_date, interval_months) ==
  IF current_start > end_date THEN <<>>
  ELSE LET last_day == AddMonths(current_start, interval_months) - 1
           current_end == IF last_day > end_date THEN end_date ELSE last_day
           interval_data ==
             SelectRows(asset_series, 1,
                        {r \in {asset_series[i] : i \in 1..Len(asset_series)} :
                           current_start <= r.date /\ r.date <= current_end})
           max_dd == IF interval_data # <<>> THEN MaxDd(interval_data, 1)
                     ELSE FromInt(0)
       IN <<[start_date |-> current_start, end_date |-> current_end,
             drawdown |-> Round4(max_dd)]>>
            \o Intervals(asset_series, current_end + 1, end_date, interval_months)

\* drawdown(df, interval_months) of a series of rows [date, value] with
\* values other than 0: the intervals, and the first interval of the largest
\* drawdown with that drawdown.
Drawdown(df, interval_months) ==
  LET asset_series == SortIndex(df)
      start_date == asset_series[1].date
      end_date == asset_series[Len(asset_series)].date
      intervals == Intervals(asset_series, start_date, end_date, interval_months)
      max_row == CHOOSE i \in 1..Len(intervals) :
                   /\ \A j \in 1..Len(intervals) :
                        ~FracLess(intervals[i].drawdown, intervals[j].drawdown)
                   /\ \A j \in 1..(i - 1) :
                        FracLess(intervals[j].drawdown, intervals[i].drawdown)
  IN [intervals |-> intervals,
      overall_max_dd |-> intervals[max_row].drawdown,
      max_row |-> <<intervals[max_row].start_date, intervals[max_row].end_date>>]

\* A variant: the losing reward is used with the sign it comes with.
KellyCriterionSigned(winning_rate, winning_reward, losing_reward, losing_rate) ==
  LET lr == IF losing_rate = <<>> THEN FracSub(FromInt(1), winning_rate)
            ELSE losing_rate[1]
  IN IF winning_reward = 0 THEN FromInt(0)
     ELSE IF losing_reward = 0 THEN FromInt(1)
     ELSE Round4(FracSub(FracDiv(winning_rate.num, winning_rate.den * losing_reward),
                         FracDiv(lr.num, lr.den * winning_reward)))

\* kelly_criterion(winning_rate, winning_reward, losing_reward, losing_rate):
\* the rates are fractions, the rewards integers, losing_rate <<>> when it is
\* not given.
KellyCriterion(winning_rate, winning_reward, losing_reward, losing_rate) ==
  LET lr == IF losing_rate = <<>> THEN FracSub(FromInt(1), winning_rate)
            ELSE losing_rate[1]
      loss == IF losing_reward < 0 THEN 0 - losing_reward ELSE losing_reward
  IN IF winning_reward = 0 THEN FromInt(0)
     ELSE IF loss = 0 THEN FromInt(1)
     ELSE Round4(FracSub(FracDiv(winning_rate.num, winning_rate.den * loss),
                         FracDiv(lr.num, lr.den * winning_reward)))

\* ---------------------------------------------------- Observer metrics

\* interval_months of calculate_metrics and calculate_benchmark_metrics
DefaultIntervalMonths == 3

\* portfolio.get_asset_last_price, asset by asset: the current price of the
\* position, 0 for an asset that is not held.
GetAssetLastPrice(book) ==
  [a \in Symbols |->
     IF IndexOf(book, a) = 0 THEN FromInt(0)
     ELSE book[IndexOf(book, a)].current_price]

\* self.results[["date", "total_value"]].copy().set_index("date")
ValuesOf(rows) ==
  [i \in 1..Len(rows) |-> [date |-> rows[i].date, value |-> rows[i].total_value]]

\* Observer.calculate_metrics(): win rate, annual return, drawdown; an error
\* of one of them ends it, the module global as win_rate left it. The annual
\* volatility (a standard deviation times a square root) raises no error and
\* is not worked out. `scalars` is what .iloc hands out of the total_value
\* column: numpy scalars when pd.concat in record gave the column the dtype
\* of the recorded rows, the recorded Python numbers when it kept the object
\* dtype of the empty frame of __init__ (the pandas release decides).
CalculateMetrics(rows, log, last_price, rate_before, scalars) ==
  LET wr == WinRate(log, last_price, rate_before)
      n == Len(rows)
      ar == AnnualReturn(rows[1].total_value, rows[n].total_value,
                         rows[n].date - rows[1].date, scalars)
      dd == Drawdown(ValuesOf(rows), DefaultIntervalMonths)
  IN IF wr.err # "none"
     THEN [err |-> wr.err, rate |-> wr.rate, performance_metrics |-> <<>>]
     ELSE IF n = 0
     THEN [err |-> "index_error", rate |-> wr.rate, performance_metrics |-> <<>>]
     ELSE IF ar.err # "none"
     THEN [err |-> ar.err, rate |-> wr.rate, performance_metrics |-> <<>>]
     ELSE [err |-> "none", rate |-> wr.rate,
           performance_metrics |->
             [win_rate |-> wr.value,
              annual_return |-> [base |-> ar.base, exponent |-> ar.exponent,
                                 value |-> ar.value],
              max_drawdown |-> dd.overall_max_dd,
              max_drawdown_interval |-> dd.max_row]]

\* Observer.calculate_benchmark_metrics(): nothing when no benchmark was
\* recorded; else, benchmark by benchmark, the annual return between the
\* first and the last record (a benchmark the first record lacks starts at
\* NaN, which is not > 0), its error if it raises. The columns of
\* pd.DataFrame(self.benchmark_results) are numeric.
CalculateBenchmarkMetrics(rows) ==
  IF rows = <<>> THEN "none"
  ELSE LET df == SortIndex(rows)
           n == Len(df)
           benchmarks == UNION {DOMAIN df[i].values : i \in 1..n}
           raised == {b \in benchmarks :
                        /\ b \in DOMAIN df[1].values
                        /\ AnnualReturn(df[1].values[b],
                                        IF b \in DOMAIN df[n].values
                                        THEN df[n].values[b] ELSE 0,
                                        df[n].date - df[1].date, "numpy").err # "none"}
       IN IF raised = {} THEN "none" ELSE "zero_division"

\* run_backtest_without_broker: Timeline(bar_df), entering the loop. An empty
\* bar table makes get_main_timeline raise. The loop has made no Portfolio
\* call yet.
RunStart ==
  /\ pc = "NotStarted"
  /\ Len(trade_log) <= MaxPreRun
  /\ pc' = IF bar_df = <<>> THEN "Aborted" ELSE "Loop"
  /\ dt_idx' = 1
  /\ call' = NoCall
  /\ UNCHANGED <<portfolio_vars, data_vars, _rate, orders, order_idx, results,
                 benchmark_results, step,
                 initial_portfolio_value>>

\* The head of one iteration: generate_signals(dt), transform_signals_to_orders.
GenerateOrders ==
  /\ pc = "Loop"
  /\ dt_idx <= Len(MainTimeline(bar_df))
  /\ LET dt == MainTimeline(bar_df)[dt_idx]
     IN \E signals \in SignalsAt(bar_df, dt) :
          orders' = TransformSignalsToOrders(signals, PF, bar_df, dt)
  /\ order_idx' = 1
  /\ step' = PF
  /\ pc' = "Apply"
  /\ UNCHANGED <<portfolio_vars, data_vars, _rate, call, dt_idx, results,
                 benchmark_results,
                 initial_portfolio_value>>

\* One iteration of `for index, row in orders.df.iterrows()`: the rows of the
\* row's side and asset go to Portfolio.buy or Portfolio.sell; an error ends
\* the run.
ApplyOrder ==
  /\ pc = "Apply"
  /\ order_idx <= Len(orders)
  /\ LET row == orders[order_idx]
         sub == OrdersFor(orders, row.side, row.asset)
         r == IF row.side = "BUY" THEN PortfolioBuy(PF, sub)
                                  ELSE PortfolioSell(PF, sub)
     IN /\ cash' = r.pf.cash
        /\ asset' = r.pf.asset
        /\ trade_log' = r.pf.trade_log
        /\ call' = [op |-> IF row.side = "BUY" THEN "buy" ELSE "sell",
                    order |-> sub, err |-> r.err, applied |-> r.applied,
                    pre |-> PF, date |-> 0, value |-> FromInt(0)]
        /\ pc' = IF r.err = "none" THEN "Apply" ELSE "Aborted"
  /\ order_idx' = order_idx + 1
  /\ UNCHANGED <<data_vars, _rate, dt_idx, orders, results, benchmark_results, step,
                 initial_portfolio_value>>

\* The tail of one iteration: total_value(dt), Observer.record, and the
\* benchmark closes of dt when the benchmark table has rows for it. An error
\* of Observer.record ends the run before the benchmark is recorded.
Record ==
  /\ pc = "Apply"
  /\ order_idx > Len(orders)
  /\ LET dt == MainTimeline(bar_df)[dt_idx]
         benchmark_bars == GetBars(benchmark_df, dt)
         r == ObserverRecord(results, dt, Round(TotalValue(PF, dt, bar_df)),
                             Round(FromInt(cash)), initial_portfolio_value)
     IN /\ results' = r.results
        /\ initial_portfolio_value' = r.initial_portfolio_value
        /\ benchmark_results' =
             IF r.err = "none" /\ benchmark_bars # <<>>
             THEN RecordBenchmark(benchmark_results, dt, BenchmarkValues(benchmark_bars))
             ELSE benchmark_results
        /\ dt_idx' = IF r.err = "none" THEN dt_idx + 1 ELSE dt_idx
        /\ pc' = IF r.err = "none" THEN "Loop" ELSE "Aborted"
  /\ UNCHANGED <<portfolio_vars, data_vars, _rate, call, orders, order_idx, step>>

\* The timeline is exhausted: the metrics of the portfolio and of the
\* benchmarks are computed and the run returns the Observer; an error in the
\* metrics ends the run without one.
Finish ==
  /\ pc = "Loop"
  /\ dt_idx > Len(MainTimeline(bar_df))
  /\ \E scalars \in ScalarKinds :
     LET r == CalculateMetrics(results, trade_log, GetAssetLastPrice(asset), _rate,
                               scalars)
     IN /\ _rate' = r.rate
        /\ pc' = IF /\ r.err = "none"
                    /\ CalculateBenchmarkMetrics(benchmark_results) = "none"
                 THEN "Completed" ELSE "Aborted"
  /\ UNCHANGED <<portfolio_vars, data_vars, call, dt_idx, orders, order_idx,
                 results, benchmark_results, step,
                 initial_portfolio_value>>

NextRun == RunStart \/ GenerateOrders \/ ApplyOrder \/ Record \/ Finish

\* The simulation loop alone, on a fresh portfolio.
SpecRun == Init /\ [][NextRun]_vars

Next == BuyCall \/ SellCall \/ ValueCall

\* Callers of the Portfolio alone: any orders, valid or not.
Spec == Init /\ [][Next]_vars

\* Callers of the Portfolio, then a run of the simulation loop on it.
NextAll == Next \/ NextRun

SpecAll == Init /\ [][NextAll]_vars

\* ------------------------------------------------- the Datahub alone

\* The dates of the files.
BarDates == {1, 2, 3}

\* Closes of the files; NoRow marks a date the file has no row for.
FileCloses == {1, 4}

NoRow == 0

\* What one file holds for one symbol: per date a close or no row.
FileContents == [BarDates -> FileCloses \cup {NoRow}]

\* The rows of symbol s from date d on, in date order.
RECURSIVE SymbolRows(_, _, _)
SymbolRows(s, f, d) ==
  IF d \notin BarDates THEN <<>>
  ELSE (IF f[d] = NoRow THEN <<>> ELSE <<BarRow(d, s, f[d])>>)
         \o SymbolRows(s, f, d + 1)

\* The rows of both symbols from date d on, sorted by (trade_date, symbol).
RECURSIVE SortedRows(_, _, _)
SortedRows(fa, fb, d) ==
  IF d \notin BarDates THEN <<>>
  ELSE (IF fa[d] = NoRow THEN <<>> ELSE <<BarRow(d, "600000.SH", fa[d])>>)
         \o (IF fb[d] = NoRow THEN <<>> ELSE <<BarRow(d, "688001", fb[d])>>)
         \o SortedRows(fa, fb, d + 1)

\* _load_csv_file: one file, its rows sorted by (trade_date, symbol).
LoadCsvFile(fa, fb) == SortedRows(fa, fb, 1)

\* The contents of the second symbol's file: one close, so that the tables
\* stay few.
SecondFileContents == {f \in FileContents : \A d \in BarDates : f[d] # 4}

\* load_bar_data: every daily file loaded and sorted on its own, the frames
\* that are not empty concatenated in the order of the files, an empty frame
\* when there is none. Here: one file with both symbols, or one file per
\* symbol.
LoadedTables ==
  ({LoadCsvFile(fa, fb) : fa \in FileContents, fb \in SecondFileContents}
     \cup {SymbolRows("600000.SH", fa, 1) \o SymbolRows("688001", fb, 1) :
             fa \in FileContents, fb \in SecondFileContents})

\* The benchmark tables: no benchmark, the index on dates 1 and 3, the index
\* on every date.
BenchmarkTables ==
  { <<>>, BenchmarkBars,
    << BarRow(1, "000300.SH", 1), BarRow(2, "000300.SH", 1), BarRow(3, "000300.SH", 2) >> }

\* An optional date argument: <<>> is None, <<d>> is the date d.
OptionalDates == {<<>>} \cup {<<d>> : d \in BarDates}

\* The rows of df whose date is in the set `range`, in their order.
RowsDated(df, range) ==
  SelectRows(df, 1, {r \in {df[i] : i \in 1..Len(df)} : r.trade_date \in range})

\* Datahub.get_bars(start_date=..., end_date=...): the check of the range,
\* then the chain that builds date_slice: end_date is looked at before
\* start_date, and the branch for both comes after the branches for each.
GetBarsSlice(df, start_date, end_date) ==
  IF start_date # <<>> /\ end_date # <<>> /\ start_date[1] > end_date[1]
  THEN [err |-> "invalid_range", rows |-> <<>>]
  ELSE [err |-> "none",
        rows |-> IF end_date # <<>>
                 THEN IF ~DateSorted(df) THEN <<>>
                      ELSE RowsDated(df, {d \in BarDates : d <= end_date[1]})
                 ELSE IF start_date # <<>>
                 THEN IF ~DateSorted(df) THEN <<>>
                      ELSE RowsDated(df, {d \in BarDates : d >= start_date[1]})
                 ELSE df]

\* Index.sort_values() of a set of dates.
RECURSIVE SortValues(_)
SortValues(S) ==
  IF S = {} THEN <<>>
  ELSE LET least == CHOOSE d \in S : \A e \in S : d <= e
       IN <<least>> \o SortValues(S \ {least})

\* Datahub.get_main_timeline: the dates of the daily table that the
\* benchmark table has too, sorted; [] when either table is empty.
DatahubMainTimeline(df, benchmark) ==
  IF df = <<>> \/ benchmark = <<>> THEN <<>>
  ELSE SortValues({df[i].trade_date : i \in 1..Len(df)}
                    \cap {benchmark[i].trade_date : i \in 1..Len(benchmark)})

\* Timeline.timeseries_iterator: get_main_timeline raises on an empty table,
\* else its dates are yielded one by one.
TimeseriesIterator(df) ==
  IF df = <<>> THEN [err |-> "no_data", dates |-> <<>>]
  ELSE [err |-> "none", dates |-> MainTimeline(df)]

\* ----------------------------------------------------------- the Signal

RequiredColumns == {"close", "signal"}

RequiredIndex == {"trade_date", "symbol"}

\* A variant: a row of the current date counts as future data too.
HasFutureRowOrToday(trade_dates, current_time) ==
  \E i \in 1..Len(trade_dates) : trade_dates[i] >= current_time

\* (trade_dates > current_time).any()
HasFutureRow(trade_dates, current_time) ==
  \E i \in 1..Len(trade_dates) : trade_dates[i] > current_time

\* Signal.__init__ / Signal._validate: a frame [columns, index_names,
\* trade_dates] without the required columns or index levels raises, a frame
\* with a row after current_time warns; the Signal is built unless it raised.
SignalValidate(frame, current_time) ==
  IF RequiredColumns \ frame.columns # {}
  THEN [err |-> "missing_columns", warned |-> FALSE]
  ELSE IF RequiredIndex \ frame.index_names # {}
  THEN [err |-> "missing_index", warned |-> FALSE]
  ELSE [err |-> "none", warned |-> HasFutureRow(frame.trade_dates, current_time)]

\* ------------------------------------------------ MovingAverageStrategy

\* MovingAverageStrategy(hub, ma_buy=..., ma_sell=...) with the default
\* buy_bias -0.3 and sell_bias 0.15.
StrategyParams ==
  {[ma_buy |-> w[1], ma_sell |-> w[2],
    buy_bias |-> [num |-> -3, den |-> 10],
    sell_bias |-> [num |-> 15, den |-> 100]] : w \in {<<3, 2>>, <<2, 2>>}}

\* arr[i - window + 1] + ... + arr[i]
RECURSIVE WindowSum(_, _, _)
WindowSum(arr, i, window) ==
  IF window = 0 THEN 0 ELSE arr[i] + WindowSum(arr, i - 1, window - 1)

\* moving_average(arr, window): NaN everywhere when the array is shorter than
\* the window and on the first window - 1 places, else the mean of the
\* window that ends at the place.
MovingAverage(arr, window) ==
  [i \in 1..Len(arr) |->
     IF Len(arr) < window \/ i < window THEN NaN
     ELSE LET mean == Frac(WindowSum(arr, i, window), window)
          IN [nan |-> FALSE, num |-> mean.num, den |-> mean.den]]

\* (x - ma) / ma > bias; a comparison with NaN is false.
BiasAbove(x, ma, bias) ==
  /\ ~ma.nan
  /\ (x * ma.den - ma.num) * bias.den > bias.num * ma.num

\* (x - ma) / ma < bias; a comparison with NaN is false.
BiasBelow(x, ma, bias) ==
  /\ ~ma.nan
  /\ (x * ma.den - ma.num) * bias.den < bias.num * ma.num

\* The frame `full_output`: every row of data with its means and its signal,
\* the means taken over the close column as it stands, row after row.
FullOutput(data, p) ==
  LET indicator_values == [i \in 1..Len(data) |-> data[i].close]
      buy_ma == MovingAverage(indicator_values, p.ma_buy)
      sell_ma == MovingAverage(indicator_values, p.ma_sell)
  IN [i \in 1..Len(data) |->
        [trade_date |-> data[i].trade_date,
         symbol |-> data[i].symbol,
         close |-> data[i].close,
         buy_ma |-> buy_ma[i],
         sell_ma |-> sell_ma[i],
         signal |-> IF BiasAbove(data[i].close, sell_ma[i], p.sell_bias) THEN "SELL"
                    ELSE IF BiasBelow(data[i].close, buy_ma[i], p.buy_bias) THEN "BUY"
                    ELSE "NONE"]]

\* A variant: the strategy works on the whole table and keeps every row from
\* current_time on.
GenerateSignalsOnWholeTable(df, current_time, p) ==
  LET output == RowsDated(FullOutput(df, p), {d \in BarDates : d >= current_time})
  IN [err |-> "none", rows |-> output,
      warned |-> HasFutureRow([i \in 1..Len(output) |-> output[i].trade_date],
                              current_time)]

\* MovingAverageStrategy.generate_signals(current_time): the bars up to
\* current_time (get_bars with start_date and end_date), the two means, the
\* signals, the rows of current_time (xs raises when there is none), wrapped
\* in a Signal. An empty frame from get_bars has no close column: KeyError.
GenerateSignals(df, current_time, p) ==
  LET window == IF p.ma_buy > p.ma_sell THEN p.ma_buy ELSE p.ma_sell
      start_date == current_time - (window - 1)
      data == GetBarsSlice(df, <<start_date>>, <<current_time>>).rows
      output == RowsDated(FullOutput(data, p), {current_time})
      signal == SignalValidate(
                  [columns |-> {"signal", "close", "buy_ma", "sell_ma"},
                   index_names |-> {"trade_date", "symbol"},
                   trade_dates |-> [i \in 1..Len(output) |-> output[i].trade_date]],
                  current_time)
  IN IF data = <<>> \/ output = <<>>
     THEN [err |-> "key_error", rows |-> <<>>, warned |-> FALSE]
     ELSE [err |-> signal.err, rows |-> output, warned |-> signal.warned]

\* ------------------------------------------------- calls on the Datahub

InitData ==
  /\ cash \in InitialCashes
  /\ asset = <<>>
  /\ trade_log = <<>>
  /\ bar_df \in LoadedTables
  /\ benchmark_df \in BenchmarkTables
  /\ call = NoCall
  /\ pc = "NotStarted"
  /\ dt_idx = 0
  /\ orders = <<>>
  /\ order_idx = 0
  /\ results = <<>>
  /\ benchmark_results = <<>>
  /\ _rate = Unset
  /\ initial_portfolio_value = Unset
  /\ step = NewPortfolio(0)

\* A caller asks get_bars(start_date=..., end_date=...).
GetBarsCall ==
  /\ call.op = "none"
  /\ \E start_date \in OptionalDates, end_date \in OptionalDates :
       LET r == GetBarsSlice(bar_df, start_date, end_date)
       IN call' = [op |-> "get_bars", start_date |-> start_date,
                   end_date |-> end_date, err |-> r.err, rows |-> r.rows]
  /\ UNCHANGED <<portfolio_vars, data_vars, _rate, run_vars>>

\* A caller iterates Timeline(bar_df).timeseries_iterator(), twice.
TimelineCall ==
  /\ call.op = "none"
  /\ LET r == TimeseriesIterator(bar_df)
     IN call' = [op |-> "timeline", err |-> r.err, dates |-> r.dates,
                 again |-> TimeseriesIterator(bar_df).dates]
  /\ UNCHANGED <<portfolio_vars, data_vars, _rate, run_vars>>

\* A caller asks Datahub.get_main_timeline().
MainTimelineCall ==
  /\ call.op = "none"
  /\ call' = [op |-> "get_main_timeline",
              dates |-> DatahubMainTimeline(bar_df, benchmark_df)]
  /\ UNCHANGED <<portfolio_vars, data_vars, _rate, run_vars>>

\* A caller asks generate_signals(current_time) of a MovingAverageStrategy.
GenerateSignalsCall ==
  /\ call.op = "none"
  /\ \E current_time \in BarDates, p \in StrategyParams :
       LET r == GenerateSignals(bar_df, current_time, p)
       IN call' = [op |-> "generate_signals", date |-> current_time, params |-> p,
                   err |-> r.err, rows |-> r.rows, warned |-> r.warned]
  /\ UNCHANGED <<portfolio_vars, data_vars, _rate, run_vars>>

\* A caller asks LocalDataHub.load_info_data(): a missing info file empties
\* the daily table.
LoadInfoDataCall ==
  /\ call.op = "none"
  /\ \E found \in BOOLEAN : bar_df' = IF found THEN bar_df ELSE <<>>
  /\ UNCHANGED <<portfolio_vars, benchmark_df, call, _rate, run_vars>>

NextData ==
  \/ GetBarsCall
  \/ TimelineCall
  \/ MainTimelineCall
  \/ GenerateSignalsCall
  \/ LoadInfoDataCall

\* The Datahub, the Timeline and the strategy on any loaded tables.
SpecData == InitData /\ [][NextData]_vars

\* The frames a Signal is built from: with or without the required columns
\* and index levels, up to two rows of any dates.
SignalFrames ==
  {[columns |-> c, index_names |-> n, trade_dates |-> t] :
     c \in {{"close", "signal"}, {"signal"}},
     n \in {{"trade_date", "symbol"}, {"symbol"}},
     t \in UNION {[1..k -> BarDates] : k \in 0..2}}

\* A caller builds Signal(frame, current_time).
SignalCall ==
  /\ call.op = "none"
  /\ \E frame \in SignalFrames, current_time \in BarDates :
       LET r == SignalValidate(frame, current_time)
       IN call' = [op |-> "signal", frame |-> frame, date |-> current_time,
                   err |-> r.err, warned |-> r.warned]
  /\ UNCHANGED <<portfolio_vars, data_vars, _rate, run_vars>>

\* The Signal alone.
SpecSignal == Init /\ [][SignalCall]_vars

\* ------------------------------------------- the position manager alone

\* The symbols the position manager is asked about: "688001.SH" carries an
\* exchange suffix, "000688" has 688 elsewhere than at its head.
LotSymbols == {"600000.SH", "688001", "688001.SH", "000688"}

\* Closes of the one date the position manager is asked about: whole closes,
\* which the floats of the code hold exactly; CentCloses are the closes in
\* hundredths.
ClosePrices == {1, 3}

\* portfolio.cash when the position manager is asked.
ManagerCashes == {0, 100, 599, 600, 1200}

\* Held quantities, 0 for a symbol that is not in the book.
HeldQuantities == {0, 100}

\* The snapshot of date 1: the three traded symbols, any closes.
ManagerBars ==
  {<< BarRow(1, "600000.SH", c1), BarRow(1, "688001", c2), BarRow(1, "688001.SH", c3) >> :
     c1 \in ClosePrices, c2 \in ClosePrices, c3 \in ClosePrices}

\* A position bought at price 1.
PositionRow(a, q) ==
  [asset |-> a, quantity |-> q, cost_price |-> FromInt(1), current_price |-> FromInt(1)]

\* The books of the position manager's portfolios: each traded symbol held or
\* not, in the order of purchase.
ManagerBooks ==
  {SelectRows(<< PositionRow("688001.SH", q3), PositionRow("600000.SH", q1),
                 PositionRow("688001", q2) >>, 1,
              {PositionRow(a, q) : a \in LotSymbols, q \in HeldQuantities \ {0}}) :
     q1 \in HeldQuantities, q2 \in HeldQuantities, q3 \in HeldQuantities}

InitManager ==
  /\ cash \in ManagerCashes
  /\ asset \in ManagerBooks
  /\ trade_log = <<>>
  /\ bar_df \in ManagerBars
  /\ benchmark_df = BenchmarkBars
  /\ call = NoCall
  /\ pc = "NotStarted"
  /\ dt_idx = 0
  /\ orders = <<>>
  /\ order_idx = 0
  /\ results = <<>>
  /\ benchmark_results = <<>>
  /\ _rate = Unset
  /\ initial_portfolio_value = Unset
  /\ step = NewPortfolio(0)

\* A caller hands `signals` to transform_signals_to_orders on date 1.
Transform(signals) ==
  /\ call.op = "none"
  /\ orders' = TransformSignalsToOrders(signals, PF, bar_df, 1)
  /\ call' = [op |-> "transform", signals |-> signals, date |-> 1]
  /\ UNCHANGED <<portfolio_vars, data_vars, _rate, pc, dt_idx, order_idx, results,
                 benchmark_results, step,
                 initial_portfolio_value>>

TransformCall == \E signals \in SignalsAt(bar_df, 1) : Transform(signals)

\* A caller asks get_min_lot(a).
MinLot(a) ==
  /\ call.op = "none"
  /\ call' = [op |-> "get_min_lot", asset |-> a, lot |-> get_min_lot(a)]
  /\ UNCHANGED <<portfolio_vars, data_vars, _rate, run_vars>>

MinLotCall == \E a \in LotSymbols : MinLot(a)

NextManager == TransformCall \/ MinLotCall

\* The position manager alone: any portfolio, any closes, any signals.
SpecManager == InitManager /\ [][NextManager]_vars

\* ------------------------------------------------ the indicators alone

\* What an earlier win_rate call of the process can have left in the module
\* global: nothing when there was none, else the rate it computed.
RatesLeft == {Unset, <<Frac(1, 2)>>}

TradeQuantities == {100, -100}

\* The trade logs handed to win_rate: up to MaxLog rows, one a day, buys
\* and sells of any symbol at any price.
TradeLogs ==
  UNION {{[i \in 1..n |-> TradeRow(f[i][1], i, f[i][2], f[i][3])] :
            f \in [1..n -> Symbols \X TradeQuantities \X TradePrices]} :
         n \in 0..MaxLog}

\* The portfolios handed to win_rate: a last price for every asset.
LastPrices == [Symbols -> {FromInt(c) : c \in ClosePrices}]

\* The days of the value series: 2025-01-01, 01-15, 01-31, 02-01, 04-10.
SeriesDates == {1, 15, 31, 32, 100}

SeriesValues == {1, 2, 3}

\* The value series handed to drawdown: a value on some of the days, the
\* rows in ascending or descending order of date.
ValueSeries ==
  UNION {{[k \in 1..Cardinality(D) |->
             LET d == SortValues(D)[IF up THEN k ELSE Cardinality(D) + 1 - k]
             IN [date |-> d, value |-> f[d]]] :
            f \in [D -> SeriesValues], up \in BOOLEAN} :
         D \in (SUBSET SeriesDates) \ {{}}}

IntervalMonths == {1, 3}

KellyRates == {Frac(0, 1), Frac(1, 2), Frac(3, 5), Frac(1, 1)}

KellyRewards == {-2, -1, 0, 1, 2, 3}

InitIndicators ==
  /\ cash = 0
  /\ asset = <<>>
  /\ trade_log = <<>>
  /\ bar_df = DailyBars
  /\ benchmark_df = BenchmarkBars
  /\ call = NoCall
  /\ pc = "NotStarted"
  /\ dt_idx = 0
  /\ orders = <<>>
  /\ order_idx = 0
  /\ results = <<>>
  /\ benchmark_results = <<>>
  /\ step = NewPortfolio(0)
  /\ _rate \in RatesLeft
  /\ initial_portfolio_value = Unset

\* A caller asks win_rate(log, portfolio).
WinRateCall ==
  /\ call.op = "none"
  /\ \E log \in TradeLogs, last_price \in LastPrices :
       LET r == WinRate(log, last_price, _rate)
       IN /\ call' = [op |-> "win_rate", trade_log |-> log,
                      last_price |-> last_price, err |-> r.err, value |-> r.value]
          /\ _rate' = r.rate
  /\ UNCHANGED <<portfolio_vars, data_vars, run_vars>>

\* A caller asks annual_return(start_value, end_value, total_days).
AnnualReturnCall ==
  /\ call.op = "none"
  /\ \E start_value \in {-100, 0, 100}, end_value \in {-100, 100, 200},
        total_days \in {0, 365, 730} :
       LET r == AnnualReturn(start_value, end_value, total_days, "python")
       IN call' = [op |-> "annual_return", start_value |-> start_value,
                   end_value |-> end_value, total_days |-> total_days,
                   err |-> r.err, base |-> r.base, exponent |-> r.exponent,
                   value |-> r.value]
  /\ UNCHANGED <<portfolio_vars, data_vars, _rate, run_vars>>

\* A caller asks drawdown(df, interval_months).
DrawdownCall ==
  /\ call.op = "none"
  /\ \E df \in ValueSeries, interval_months \in IntervalMonths :
       LET r == Drawdown(df, interval_months)
       IN call' = [op |-> "drawdown", df |-> df,
                   interval_months |-> interval_months,
                   intervals |-> r.intervals,
                   overall_max_dd |-> r.overall_max_dd, max_row |-> r.max_row]
  /\ UNCHANGED <<portfolio_vars, data_vars, _rate, run_vars>>

\* A caller asks kelly_criterion(winning_rate, winning_reward, losing_reward)
\* with or without a losing_rate.
KellyCall ==
  /\ call.op = "none"
  /\ \E winning_rate \in KellyRates, winning_reward \in KellyRewards,
        losing_reward \in KellyRewards,
        losing_rate \in {<<>>} \cup {<<x>> : x \in KellyRates} :
       call' = [op |-> "kelly_criterion", winning_rate |-> winning_rate,
                winning_reward |-> winning_reward,
                losing_reward |-> losing_reward, losing_rate |-> losing_rate,
                value |-> KellyCriterion(winning_rate, winning_reward,
                                         losing_reward, losing_rate)]
  /\ UNCHANGED <<portfolio_vars, data_vars, _rate, run_vars>>

NextIndicators == WinRateCall \/ AnnualReturnCall \/ DrawdownCall \/ KellyCall

\* The indicators alone, on any inputs.
SpecIndicators == InitIndicators /\ [][NextIndicators]_vars

\* ------------------------------------------- the Observer metrics alone

\* The days the Observer is handed: 2025-01-01, 01-02, 02-09.
RecordDates == {1, 2, 40}

\* The total values it is handed.
RecordValues == {-100, 0, 100, 200}

\* The portfolios of the Observer: one that never traded, one that bought
\* and holds, one that bought and sold out.
MetricPortfolios ==
  LET fresh == NewPortfolio(300)
      held == PortfolioBuy(fresh, <<OrderRow(1, "600000.SH", "BUY", 100, 1)>>).pf
      closed == PortfolioSell(held, <<OrderRow(2, "600000.SH", "SELL", 100, 2)>>).pf
  IN {fresh, held, closed}

InitMetrics ==
  /\ \E pf \in MetricPortfolios :
       /\ cash = pf.cash
       /\ asset = pf.asset
       /\ trade_log = pf.trade_log
  /\ bar_df = DailyBars
  /\ benchmark_df = BenchmarkBars
  /\ call = NoCall
  /\ pc = "NotStarted"
  /\ dt_idx = 0
  /\ orders = <<>>
  /\ order_idx = 0
  /\ results = <<>>
  /\ benchmark_results = <<>>
  /\ step = NewPortfolio(0)
  /\ _rate \in RatesLeft
  /\ initial_portfolio_value = Unset

\* A caller asks Observer.record(dt, total_value, cash) for a day after the
\* days recorded; a total value of 0 is handed to an Observer without
\* records alone (drawdown is worked out on series without a 0).
RecordCall ==
  /\ call.op \in {"none", "record"}
  /\ \E dt \in RecordDates, total_value \in RecordValues :
       /\ results # <<>> => (dt > results[Len(results)].date /\ total_value # 0)
       /\ LET r == ObserverRecord(results, dt, total_value, 0,
                                  initial_portfolio_value)
          IN /\ results' = r.results
             /\ initial_portfolio_value' = r.initial_portfolio_value
             /\ call' = [op |-> "record", date |-> dt,
                         total_value |-> total_value, err |-> r.err]
  /\ UNCHANGED <<portfolio_vars, data_vars, _rate, pc, dt_idx, orders, order_idx,
                 benchmark_results, step>>

\* A caller asks Observer.calculate_metrics().
CalculateMetricsCall ==
  /\ call.op \in {"none", "record"}
  /\ \E scalars \in ScalarKinds :
       LET r == CalculateMetrics(results, trade_log, GetAssetLastPrice(asset),
                                 _rate, scalars)
       IN /\ call' = [op |-> "calculate_metrics", err |-> r.err,
                      performance_metrics |-> r.performance_metrics]
          /\ _rate' = r.rate
  /\ UNCHANGED <<portfolio_vars, data_vars, pc, dt_idx, orders, order_idx, results,
                 benchmark_results, step, initial_portfolio_value>>

NextMetrics == RecordCall \/ CalculateMetricsCall

\* The Observer alone: any records, then the metrics.
SpecMetrics == InitMetrics /\ [][NextMetrics]_vars

\* ------------------------------------- the loop, any position manager

\* PositionManager.transform_signals_to_orders of any subclass: an order list
\* for current_time, each row a BUY or a SELL of a symbol quoted that day, at
\* its close; two rows may name the same side and asset.
AnyOrders(df, current_time) ==
  LET current_prices == GetBar(df, current_time)
      rows == {OrderRow(current_time, current_prices[i].symbol, side, q,
                        current_prices[i].close) :
                 i \in 1..Len(current_prices), side \in {"BUY", "SELL"},
                 q \in Quantities}
  IN UNION {[1..n -> rows] : n \in {0} \cup OrderLens}

\* The head of one iteration with a position manager of any subclass.
GenerateAnyOrders ==
  /\ pc = "Loop"
  /\ dt_idx <= Len(MainTimeline(bar_df))
  /\ orders' \in AnyOrders(bar_df, MainTimeline(bar_df)[dt_idx])
  /\ order_idx' = 1
  /\ step' = PF
  /\ pc' = "Apply"
  /\ UNCHANGED <<portfolio_vars, data_vars, _rate, call, dt_idx, results,
                 benchmark_results,
                 initial_portfolio_value>>

NextAnyManager == RunStart \/ GenerateAnyOrders \/ ApplyOrder \/ Record \/ Finish

\* The simulation loop on a fresh portfolio, the orders of any position
\* manager.
SpecAnyManager == Init /\ [][NextAnyManager]_vars

\* ---------------------------------- closes in hundredths: the floats

\* The closes of this section are given in hundredths (0.17, 0.25, 0.34), as
\* a price file gives them; cash and quantities are whole. A float64 holds
\* whole numbers of this size exactly and a close c/100 with an error:
\* ReprError(c) is 100 * 2^55 * (float(c/100) - c/100), a whole number.
CentCloses == {17, 25, 34}

ReprError(c) == CASE c = 17 -> 44 [] c = 25 -> 0 [] c = 34 -> 88

\* The largest cash of this section.
MaxCash == 120

RECURSIVE Pow2(_)
Pow2(n) == IF n = 0 THEN 1 ELSE 2 * Pow2(n - 1)

\* The exponent of the float x >= 1: the largest n with 2^n <= x.
RECURSIVE Exponent(_)
Exponent(x) == IF x < 2 THEN 0 ELSE 1 + Exponent(x \div 2)

\* int(raw_qty // min_lot) * min_lot, raw_qty = allocated_cash / close_price
\* in floats, for a close of c hundredths. The quotient differs from
\* 100 * allocated_cash / c by the error of the close; that decides the
\* number of lots only when 100 * allocated_cash / c is a whole number of
\* lots k * min_lot, and then the float quotient is k * min_lot unless the
\* error is more than half the spacing of the floats below k * min_lot.
FloatBuyQuantity(allocated_cash, c, min_lot) ==
  LET k == (100 * allocated_cash) \div (c * min_lot)
      on_lot == k >= 1 /\ 100 * allocated_cash = k * min_lot * c
      below == on_lot /\ k * min_lot * ReprError(c)
                           > c * Pow2(Exponent(k * min_lot - 1) + 2)
  IN (IF below THEN k - 1 ELSE k) * min_lot

\* total_cost = quantity * trade_price in floats, for a whole number of
\* hundreds of shares at c hundredths: the whole number quantity * c / 100
\* and the spacings of the floats at that number by which the product,
\* rounded to the nearest float, lies above it.
FloatTotalCost(quantity, c) ==
  LET whole == (quantity * c) \div 100
      spacing == Pow2(Exponent(whole) + 3)
  IN [whole |-> whole,
      above |-> Round(FracDiv((quantity \div 100) * ReprError(c), spacing))]

\* if self.cash < total_cost: raise, for a whole cash and a float total_cost
FloatInsufficientCash(cash_now, total_cost) ==
  \/ cash_now < total_cost.whole
  \/ cash_now = total_cost.whole /\ total_cost.above > 0

InitDecimal ==
  /\ cash \in 1..MaxCash
  /\ asset = <<>>
  /\ trade_log = <<>>
  /\ bar_df = DailyBars
  /\ benchmark_df = BenchmarkBars
  /\ call = NoCall
  /\ pc = "NotStarted"
  /\ dt_idx = 0
  /\ orders = <<>>
  /\ order_idx = 0
  /\ results = <<>>
  /\ benchmark_results = <<>>
  /\ step = NewPortfolio(0)
  /\ _rate = Unset
  /\ initial_portfolio_value = Unset

\* One BUY signal, for a symbol that closes at c hundredths, on a portfolio
\* that holds cash alone: the order quantity of transform_signals_to_orders
\* (allocated_cash = cash / 1) and, when an order is emitted, the test
\* Portfolio.buy makes of it. What a buy that passes the test then writes is
\* not followed.
BuySignalCall ==
  /\ call.op = "none"
  /\ \E symbol \in Symbols, c \in CentCloses :
       LET min_lot == get_min_lot(symbol)
           order_qty == FloatBuyQuantity(cash, c, min_lot)
           total_cost == FloatTotalCost(order_qty, c)
       IN call' = [op |-> "buy_signal", asset |-> symbol, close |-> c,
                   min_lot |-> min_lot, emitted |-> order_qty >= min_lot,
                   quantity |-> order_qty, total_cost |-> total_cost,
                   err |-> IF order_qty >= min_lot
                              /\ FloatInsufficientCash(cash, total_cost)
                           THEN "insufficient_cash" ELSE "none"]
  /\ UNCHANGED <<portfolio_vars, data_vars, _rate, run_vars>>

\* The position manager and the cash test of the Portfolio on closes in
\* hundredths.
SpecDecimal == InitDecimal /\ [][BuySignalCall]_vars

\* ------------------------------------------------------ claims: helpers

\* The rows of a book that hold symbol s.
RowsOf(book, s) == {i \in 1..Len(book) : book[i].asset = s}

Holds(book, s) == RowsOf(book, s) # {}

\* The position of s in a book that holds it.
PositionOf(book, s) == book[CHOOSE i \in RowsOf(book, s) : TRUE]

HeldQuantity(book, s) == IF Holds(book, s) THEN PositionOf(book, s).quantity ELSE 0

\* The shares of s an order names, over all its rows.
RECURSIVE SharesIn(_, _, _)
SharesIn(rows, s, i) ==
  IF i > Len(rows) THEN 0
  ELSE (IF rows[i].asset = s THEN rows[i].quantity ELSE 0) + SharesIn(rows, s, i + 1)

\* The notional quantity * trade_price of rows i .. j of an order.
RECURSIVE NotionalOf(_, _, _)
NotionalOf(rows, i, j) ==
  IF i > j THEN 0
  ELSE rows[i].quantity * rows[i].trade_price + NotionalOf(rows, i + 1, j)

\* The trade-log rows an order leaves, its quantities signed by sign.
LogRowsOf(rows, sign) ==
  [i \in 1..Len(rows) |->
     [asset |-> rows[i].asset, trade_date |-> rows[i].date,
      trade_qty |-> sign * rows[i].quantity, trade_price |-> rows[i].trade_price]]

BuyEnded == call.op = "buy"

SellEnded == call.op = "sell"

Succeeded == call.err = "none"

\* -------------------------------------------------------------- claims

\* C1: a Portfolio.buy that succeeds takes exactly quantity * trade_price of
\* every row from the cash, adds exactly the row's quantity to the holding of
\* its asset (a new position when the asset was not held, and never a second
\* row for a held one), appends exactly one trade-log row (asset, date,
\* +quantity, trade_price) per order row, and leaves every other position as
\* it was; a one-row order whose notional is within the cash does succeed.
C1_BuyEffect ==
  /\ (BuyEnded /\ Succeeded) =>
       /\ cash = call.pre.cash - NotionalOf(call.order, 1, Len(call.order))
       /\ \A s \in Symbols :
            /\ HeldQuantity(asset, s)
                 = HeldQuantity(call.pre.asset, s) + SharesIn(call.order, s, 1)
            /\ Cardinality(RowsOf(asset, s)) <= 1
            /\ SharesIn(call.order, s, 1) = 0 =>
                 /\ Holds(asset, s) = Holds(call.pre.asset, s)
                 /\ Holds(asset, s) =>
                      PositionOf(asset, s) = PositionOf(call.pre.asset, s)
       /\ trade_log = call.pre.trade_log \o LogRowsOf(call.order, 1)
  /\ (BuyEnded /\ Len(call.order) = 1
        /\ call.order[1].quantity * call.order[1].trade_price <= call.pre.cash)
       => Succeeded

\* C1's case: a one-row buy opened a new position beside one already held.
C1_Witness ==
  /\ BuyEnded /\ Succeeded /\ Len(call.order) = 1
  /\ Len(call.pre.asset) = 1
  /\ Len(asset) = 2

\* C2: a Portfolio.sell that succeeds adds exactly quantity * trade_price of
\* every row to the cash, takes the row's quantity from the holding, appends
\* exactly one trade-log row with quantity -q per order row, and removes the
\* position exactly when nothing of it remains: no position of quantity 0 is
\* ever in the book. A one-row order for at most the held quantity succeeds.
C2_SellEffect ==
  /\ (SellEnded /\ Succeeded) =>
       /\ cash = call.pre.cash + NotionalOf(call.order, 1, Len(call.order))
       /\ \A s \in Symbols :
            /\ HeldQuantity(asset, s)
                 = HeldQuantity(call.pre.asset, s) - SharesIn(call.order, s, 1)
            /\ Holds(asset, s)
                 <=> HeldQuantity(call.pre.asset, s) - SharesIn(call.order, s, 1) > 0
       /\ trade_log = call.pre.trade_log \o LogRowsOf(call.order, -1)
  /\ (SellEnded /\ Len(call.order) = 1
        /\ Holds(call.pre.asset, call.order[1].asset)
        /\ call.order[1].quantity <= HeldQuantity(call.pre.asset, call.order[1].asset))
       => Succeeded
  /\ \A i \in 1..Len(asset) : asset[i].quantity > 0

\* C2's case: a sell of the whole holding removed one of two positions.
C2_Witness ==
  /\ SellEnded /\ Succeeded
  /\ Len(call.pre.asset) = 2
  /\ Len(asset) = 1

\* C3: the first buy of an asset sets cost_price to the trade price; a later
\* buy of q at p into a position (Q, C) sets it to (Q*C + q*p) / (Q + q); a
\* sell leaves the cost_price of what remains untouched.
C3_CostBasis ==
  /\ (BuyEnded /\ Succeeded /\ Len(call.order) = 1) =>
       LET row == call.order[1]
           now == PositionOf(asset, row.asset).cost_price
           old == PositionOf(call.pre.asset, row.asset)
       IN IF ~Holds(call.pre.asset, row.asset)
          THEN now.num = row.trade_price * now.den
          ELSE now.num * old.cost_price.den * (old.quantity + row.quantity)
                 = (old.quantity * old.cost_price.num
                      + row.quantity * row.trade_price * old.cost_price.den) * now.den
  /\ (SellEnded /\ Succeeded) =>
       \A s \in Symbols :
         Holds(asset, s) =>
           PositionOf(asset, s).cost_price = PositionOf(call.pre.asset, s).cost_price

\* C3's case: a buy into a held position at another price, the new cost
\* basis not a whole number.
C3_Witness ==
  /\ BuyEnded /\ Succeeded /\ Len(call.order) = 1
  /\ Holds(call.pre.asset, call.order[1].asset)
  /\ PositionOf(asset, call.order[1].asset).cost_price.den > 1

\* C4: the cash of the Portfolio is never negative, whatever orders callers
\* hand to buy and sell (valid or raising) and in every state of a run of the
\* simulation loop.
C4_CashNeverNegative == cash >= 0

\* C4's case: inside a run, a buy of the loop has spent the cash to the last
\* unit.
C4_Witness ==
  /\ pc = "Apply"
  /\ BuyEnded /\ Succeeded
  /\ call.pre.cash > 0
  /\ cash = 0

\* C5: Portfolio.buy raises the insufficient-cash error exactly when the
\* notional quantity * trade_price of the row at hand is strictly greater than
\* the cash at that moment, and raises nothing else; a buy whose notional
\* equals the cash succeeds and leaves cash 0.
C5_InsufficientCash ==
  BuyEnded =>
    /\ call.err \in {"none", "insufficient_cash"}
    /\ Succeeded <=> call.applied = Len(call.order)
    /\ \A i \in 1..call.applied : NotionalOf(call.order, 1, i) <= call.pre.cash
    /\ ~Succeeded =>
         /\ cash = call.pre.cash - NotionalOf(call.order, 1, call.applied)
         /\ NotionalOf(call.order, call.applied + 1, call.applied + 1) > cash
    /\ Len(call.order) = 1 =>
         /\ call.err = "insufficient_cash"
              <=> call.order[1].quantity * call.order[1].trade_price > call.pre.cash
         /\ call.order[1].quantity * call.order[1].trade_price = call.pre.cash
              => (Succeeded /\ cash = 0)

\* C5's case: a one-row buy for exactly the cash at hand went through.
C5_Witness ==
  /\ BuyEnded /\ Succeeded /\ Len(call.order) = 1
  /\ call.order[1].quantity * call.order[1].trade_price = call.pre.cash
  /\ cash = 0

\* C6: Portfolio.sell raises the unknown-position error when the asset of the
\* row at hand is not held, the insufficient-quantity error when it is held
\* and the row asks for more than is held, and raises in no other case.
C6_SellErrors ==
  SellEnded =>
    /\ call.err \in {"none", "unknown_position", "insufficient_quantity"}
    /\ Succeeded <=> call.applied = Len(call.order)
    /\ ~Succeeded =>
         LET row == call.order[call.applied + 1]
         IN /\ call.err = "unknown_position" <=> ~Holds(asset, row.asset)
            /\ call.err = "insufficient_quantity"
                 <=> /\ Holds(asset, row.asset)
                     /\ row.quantity > HeldQuantity(asset, row.asset)
    /\ Len(call.order) = 1 =>
         LET row == call.order[1]
             held == Holds(call.pre.asset, row.asset)
             quantity == HeldQuantity(call.pre.asset, row.asset)
         IN /\ call.err = "unknown_position" <=> ~held
            /\ call.err = "insufficient_quantity" <=> (held /\ row.quantity > quantity)
            /\ Succeeded <=> (held /\ row.quantity <= quantity)

\* C6's case: a sell of more than the held quantity raised, while a sell of
\* an asset that is held was asked.
C6_Witness ==
  /\ SellEnded /\ Len(call.order) = 1
  /\ call.err = "insufficient_quantity"
  /\ Holds(call.pre.asset, call.order[1].asset)

\* C7: whenever Portfolio.buy or Portfolio.sell raises, cash, positions and
\* trade log are what they were before the call, also when the order has
\* several rows and the rows before the failing one were valid.
C7_NoPartialExecution ==
  ((BuyEnded \/ SellEnded) /\ ~Succeeded) =>
    /\ cash = call.pre.cash
    /\ asset = call.pre.asset
    /\ trade_log = call.pre.trade_log

ValueEnded == call.op = "total_value"

\* The bar table quotes symbol s on date d.
Quoted(df, d, s) ==
  \E i \in 1..Len(df) : df[i].trade_date = d /\ df[i].symbol = s

\* The close of symbol s on date d.
OwnClose(df, d, s) ==
  df[CHOOSE i \in 1..Len(df) : df[i].trade_date = d /\ df[i].symbol = s].close

\* The positions from row i on, each at the close of its own symbol on date d.
RECURSIVE ValueAtOwnClose(_, _, _, _)
ValueAtOwnClose(book, df, d, i) ==
  IF i > Len(book) THEN 0
  ELSE book[i].quantity * OwnClose(df, d, book[i].asset)
         + ValueAtOwnClose(book, df, d, i + 1)

\* The positions from row i on, each at its own current_price.
RECURSIVE ValueAtCurrentPrice(_, _)
ValueAtCurrentPrice(book, i) ==
  IF i > Len(book) THEN FromInt(0)
  ELSE FracAdd(FracTimes(book[i].quantity, book[i].current_price),
               ValueAtCurrentPrice(book, i + 1))

\* C8: total_value(date) is the cash plus, over the held positions, quantity
\* times the close of that same symbol on that date, whenever the bar table
\* has a row for the symbol on the date.
C8_OwnClose ==
  (ValueEnded /\ \A i \in 1..Len(asset) : Quoted(bar_df, call.date, asset[i].asset))
    => call.value = FromInt(cash + ValueAtOwnClose(asset, bar_df, call.date, 1))

\* C9: a held symbol without a quote on the valuation date (no row at all on
\* the date, or rows of other symbols only) is valued at quantity times its
\* own current_price, never at the price of another symbol.
C9_Fallback ==
  (ValueEnded /\ \A i \in 1..Len(asset) : ~Quoted(bar_df, call.date, asset[i].asset))
    => call.value = FracAdd(FromInt(cash), ValueAtCurrentPrice(asset, 1))

\* All the orders of the step are applied; the step is about to be valued.
StepApplied == pc = "Apply" /\ order_idx > Len(orders)

\* The notional of the orders of one side, from row i on.
RECURSIVE SideNotional(_, _, _)
SideNotional(rows, side, i) ==
  IF i > Len(rows) THEN 0
  ELSE (IF rows[i].side = side THEN rows[i].quantity * rows[i].trade_price ELSE 0)
         + SideNotional(rows, side, i + 1)

\* quantity * cost_price over the positions from row i on.
RECURSIVE BookCost(_, _)
BookCost(book, i) ==
  IF i > Len(book) THEN FromInt(0)
  ELSE FracAdd(FracTimes(book[i].quantity, book[i].cost_price), BookCost(book, i + 1))

\* quantity * price over the trade-log rows after row i: money spent.
RECURSIVE Spent(_, _)
Spent(log, i) ==
  IF i >= Len(log) THEN 0
  ELSE log[i + 1].trade_qty * log[i + 1].trade_price + Spent(log, i + 1)

\* C10 as stated: after every step, cash plus quantity * cost_price over the
\* held positions equals the cash before the step minus the notional of the
\* step's BUY orders plus the notional of its SELL orders.
C10_ConservationAsStated ==
  StepApplied =>
    FracAdd(FromInt(cash), BookCost(asset, 1))
      = FromInt(step.cash - SideNotional(orders, "BUY", 1)
                          + SideNotional(orders, "SELL", 1))

\* C10, amended: after every step the cash alone equals the cash before the
\* step minus the notional of the step's BUY orders plus the notional of its
\* SELL orders; at every moment of a step the cash is the cash before the
\* step minus quantity * price over the trade-log rows the step has written.
C10_CashConservation ==
  /\ StepApplied =>
       cash = step.cash - SideNotional(orders, "BUY", 1)
                        + SideNotional(orders, "SELL", 1)
  /\ cash = step.cash - Spent(trade_log, Len(step.trade_log))

\* C10's case: a step that sold one position and bought another is applied.
C10_Witness ==
  /\ StepApplied
  /\ \E i \in 1..Len(orders) : orders[i].side = "SELL"
  /\ \E i \in 1..Len(orders) : orders[i].side = "BUY"

\* The position manager has answered `call.signals`.
Transformed == call.op = "transform"

\* The rows of the order list for symbol s on one side.
OrderRowsOf(rows, side, s) ==
  {i \in 1..Len(rows) : rows[i].side = side /\ rows[i].asset = s}

\* Symbol s has a signal of the kind sig.
Signalled(signals, s, sig) ==
  \E i \in 1..Len(signals) : signals[i].symbol = s /\ signals[i].signal = sig

\* C11: for every symbol with a SELL signal and a held quantity above 0 the
\* position manager emits exactly one SELL order, for the whole held quantity
\* at the symbol's own close of the current date; it emits no SELL order for
\* any other symbol, a symbol that is not held among them.
C11_SellRule ==
  Transformed =>
    \A s \in LotSymbols :
      IF Signalled(call.signals, s, "SELL") /\ HeldQuantity(asset, s) > 0
      THEN /\ Cardinality(OrderRowsOf(orders, "SELL", s)) = 1
           /\ \A i \in OrderRowsOf(orders, "SELL", s) :
                /\ orders[i].quantity = HeldQuantity(asset, s)
                /\ orders[i].trade_price = OwnClose(bar_df, call.date, s)
                /\ orders[i].date = call.date
      ELSE OrderRowsOf(orders, "SELL", s) = {}

\* C11's case: two held symbols with different closes are both sold, a third
\* symbol with a SELL signal is not held.
C11_Witness ==
  /\ Transformed
  /\ Cardinality({i \in 1..Len(orders) : orders[i].side = "SELL"}) = 2
  /\ \E i, j \in 1..Len(orders) :
       /\ orders[i].side = "SELL" /\ orders[j].side = "SELL"
       /\ orders[i].trade_price # orders[j].trade_price
  /\ \E s \in LotSymbols : Signalled(call.signals, s, "SELL") /\ ~Holds(asset, s)

\* The number of BUY signals.
NumBuy(signals) == Cardinality({i \in 1..Len(signals) : signals[i].signal = "BUY"})

\* C12: with n BUY signals and cash above 0, the quantity of a BUY symbol is
\* floor((cash / n) / P / L) * L for its close P and its lot L = get_min_lot;
\* the BUY order is emitted exactly when that quantity is at least L, so an
\* emitted quantity is a positive multiple of L, and a symbol whose allocation
\* does not pay one lot has no order. Without cash there is no BUY order.
C12_BuySizing ==
  Transformed =>
    \A s \in LotSymbols :
      LET n == NumBuy(call.signals)
          L == get_min_lot(s)
          rows == OrderRowsOf(orders, "BUY", s)
      IN IF Signalled(call.signals, s, "BUY") /\ cash > 0
         THEN LET P == OwnClose(bar_df, call.date, s)
                  \* the largest k with k * L * P * n <= cash
                  k == CHOOSE m \in 0..cash :
                         /\ m * L * P * n <= cash
                         /\ (m + 1) * L * P * n > cash
              IN IF k >= 1
                 THEN /\ Cardinality(rows) = 1
                      /\ \A i \in rows :
                           /\ orders[i].quantity = k * L
                           /\ orders[i].quantity % L = 0
                           /\ orders[i].quantity > 0
                           /\ orders[i].trade_price = P
                 ELSE rows = {}
         ELSE rows = {}

\* C12's case: two BUY signals share the cash; one symbol gets several lots,
\* the allocation of the other does not pay one lot and it gets no order.
C12_Witness ==
  /\ Transformed
  /\ NumBuy(call.signals) = 2
  /\ Cardinality({i \in 1..Len(orders) : orders[i].side = "BUY"}) = 1
  /\ \E i \in 1..Len(orders) :
       /\ orders[i].side = "BUY"
       /\ orders[i].quantity >= 2 * get_min_lot(orders[i].asset)

\* C14: get_min_lot is 200 for every symbol whose code starts with 688, with
\* or without an exchange suffix, and 100 for every other symbol.
C14_LotByPrefix ==
  call.op = "get_min_lot" =>
    call.lot = IF StartsWith(call.asset, <<"6", "8", "8">>) THEN 200 ELSE 100

\* The Signal of generate_signals is at hand.
SignalsGenerated == call.op = "generate_signals" /\ call.err = "none"

\* Two tables hold the same rows dated current_time or before.
AgreeUpTo(df, other, current_time) ==
  {df[i] : i \in {j \in 1..Len(df) : df[j].trade_date <= current_time}}
    = {other[i] : i \in {j \in 1..Len(other) : other[j].trade_date <= current_time}}

\* C15: every row of the Signal that MovingAverageStrategy.generate_signals(T)
\* returns is dated T or before (so the Signal carries no look-ahead warning),
\* and the Signal returned for any other loaded table that has the same rows
\* up to T, whatever its rows after T, is the same Signal.
C15_NoLookahead ==
  SignalsGenerated =>
    /\ \A i \in 1..Len(call.rows) : call.rows[i].trade_date <= call.date
    /\ ~call.warned
    /\ \A other \in LoadedTables :
         AgreeUpTo(bar_df, other, call.date) =>
           LET r == GenerateSignals(other, call.date, call.params)
           IN r.err = "none" => r.rows = call.rows

\* C15's case: a Signal with a BUY or SELL row for a date that has later
\* rows in the table.
C15_Witness ==
  /\ SignalsGenerated
  /\ \E i \in 1..Len(call.rows) : call.rows[i].signal \in {"BUY", "SELL"}
  /\ \E i \in 1..Len(bar_df) : bar_df[i].trade_date > call.date

\* C16: building a Signal from a frame that has the required columns and
\* index levels never raises; it warns exactly when a row of the frame is
\* dated after the current date.
C16_LookaheadWarning ==
  (/\ call.op = "signal"
   /\ RequiredColumns \subseteq call.frame.columns
   /\ RequiredIndex \subseteq call.frame.index_names) =>
    /\ call.err = "none"
    /\ call.warned <=> \E i \in 1..Len(call.frame.trade_dates) :
                         call.frame.trade_dates[i] > call.date

\* C16's case: a Signal with a row of the current date and a row of a later
\* date was built, with a warning.
C16_Witness ==
  /\ call.op = "signal" /\ call.err = "none" /\ call.warned
  /\ \E i \in 1..Len(call.frame.trade_dates) : call.frame.trade_dates[i] = call.date

\* C17: Timeline.timeseries_iterator yields every distinct trade date of the
\* loaded table exactly once, in strictly ascending order, whatever the row
\* order of the table, and yields the same sequence when iterated again.
C17_TimelineAscending ==
  call.op = "timeline" =>
    /\ call.err = "none"
    /\ {call.dates[i] : i \in 1..Len(call.dates)}
         = {bar_df[i].trade_date : i \in 1..Len(bar_df)}
    /\ \A i \in 1..Len(call.dates) : \A j \in (i + 1)..Len(call.dates) :
         call.dates[i] < call.dates[j]
    /\ call.again = call.dates

\* The date of the step the loop is at.
StepDate == MainTimeline(bar_df)[dt_idx]

\* The loop is inside the step of StepDate.
InStep == pc = "Apply"

\* C18: with a daily and a benchmark table loaded, every date the simulation
\* loop makes a step of has a row in the daily table and a row in the
\* benchmark table.
C18_BenchmarkJoin ==
  (InStep /\ bar_df # <<>> /\ benchmark_df # <<>>) =>
    /\ \E i \in 1..Len(bar_df) : bar_df[i].trade_date = StepDate
    /\ \E i \in 1..Len(benchmark_df) : benchmark_df[i].trade_date = StepDate

\* C19: on a table sorted by date, get_bars(start_date, end_date) raises
\* exactly when both are given and start_date > end_date, and else returns
\* exactly the rows whose date is within the bounds that are given.
C19_BarSlice ==
  (call.op = "get_bars" /\ DateSorted(bar_df)) =>
    IF /\ call.start_date # <<>> /\ call.end_date # <<>>
       /\ call.start_date[1] > call.end_date[1]
    THEN call.err = "invalid_range"
    ELSE /\ call.err = "none"
         /\ call.rows =
              RowsDated(bar_df,
                        {d \in BarDates :
                           /\ call.start_date # <<>> => call.start_date[1] <= d
                           /\ call.end_date # <<>> => d <= call.end_date[1]})

\* C20: a run takes the timeline dates in order; within the step of a date
\* the orders are generated for that date and applied one after another,
\* then the portfolio is valued and recorded, so that the Observer holds one
\* record per finished step, in timeline order, each made of the portfolio as
\* it is after all the orders of its date; a run that completes has recorded
\* every date of the timeline.
C20_StepOrder ==
  LET timeline == MainTimeline(bar_df)
      n == Len(results)
  IN (RunBegun /\ pc # "Aborted") =>
       /\ n = dt_idx - 1
       /\ \A i \in 1..n : results[i].date = timeline[i]
       /\ InStep =>
            /\ dt_idx \in 1..Len(timeline)
            /\ \A i \in 1..Len(orders) : orders[i].date = timeline[dt_idx]
            /\ Len(trade_log) = Len(step.trade_log) + (order_idx - 1)
       /\ (pc \in {"Loop", "Completed"} /\ n > 0) =>
            /\ Len(trade_log) = Len(step.trade_log) + Len(orders)
            /\ results[n].total_value = Round(TotalValue(PF, timeline[n], bar_df))
            /\ results[n].cash = Round(FromInt(cash))
       /\ pc = "Completed" => n = Len(timeline)

\* C20's case: a completed run that traded, every date of the timeline
\* recorded.
C20_Witness ==
  /\ pc = "Completed"
  /\ Len(results) = Len(MainTimeline(bar_df))
  /\ Len(trade_log) >= 2

\* ------------------------------------------- run_backtest, called again

\* The passes of the loop a BackTester is followed through.
MaxPasses == 2

\* BackTester.run_backtest on a BackTester whose run has completed:
\* load_all_data reads the same files again, and with no broker
\* run_backtest_without_broker builds the Timeline and enters the loop; the
\* Portfolio and the Observer are the ones of the constructor.
RunAgain ==
  /\ pc = "Completed"
  /\ Len(results) < MaxPasses * Len(MainTimeline(bar_df))
  /\ pc' = IF bar_df = <<>> THEN "Aborted" ELSE "Loop"
  /\ dt_idx' = 1
  /\ UNCHANGED <<portfolio_vars, data_vars, _rate, call, orders, order_idx, results,
                 benchmark_results, step,
                 initial_portfolio_value>>

NextRerun == NextRun \/ RunAgain

\* A BackTester on a fresh portfolio, run_backtest called time after time.
SpecRerun == Init /\ [][NextRerun]_vars

\* The Observer holds a record of every date of the timeline: the first pass
\* has made its last step.
PassRecorded == Len(results) >= Len(MainTimeline(bar_df))

\* C21: a BackTester makes one pass: once the run has recorded every date of
\* the timeline and completed, a further call of run_backtest adds no
\* Observer record and changes nothing in the Portfolio.
C21_SinglePass ==
  [][PassRecorded =>
       /\ results' = results
       /\ cash' = cash
       /\ asset' = asset
       /\ trade_log' = trade_log]_vars

\* ----------------------------------------------------- claims: indicators

\* qty * price over the rows of symbol a from row i up to the last row at
\* which the cumulative quantity of a is 0: its closed sequence as a whole.
RECURSIVE ClosedSequencePnl(_, _, _)
ClosedSequencePnl(log, a, i) ==
  IF \A j \in i..Len(log) : ~(j \in ClosedTrades(log) /\ log[j].asset = a)
  THEN 0
  ELSE (IF log[i].asset = a THEN log[i].trade_qty * log[i].trade_price ELSE 0)
         + ClosedSequencePnl(log, a, i + 1)

WinRateEnded == call.op = "win_rate"

\* C22: for a non-empty trade log with a closed or an open symbol, win_rate
\* returns the symbols whose closed sequence has a positive sum of qty * price
\* over the whole sequence, plus the open positions with a positive floating
\* profit, over the closed symbols plus the open positions; also when every
\* symbol is closed and none is open at the end.
C22_WinRate ==
  LET log == call.trade_log
      closed_assets == {log[i].asset : i \in ClosedTrades(log)}
      open == LastTradeWithPosition(log)
      wins == Cardinality({a \in closed_assets : ClosedSequencePnl(log, a, 1) > 0})
              + Cardinality({i \in open :
                               FloatingProfit(log, i, call.last_price).num > 0})
      total == Cardinality(closed_assets) + Cardinality(open)
  IN (WinRateEnded /\ log # <<>> /\ total > 0) =>
       /\ call.err = "none"
       /\ call.value = Frac(wins, total)

\* C23: for an Observer that recorded at least one date, calculate_metrics
\* raises nothing and yields its sentinels: an annual return of 0 when the
\* first value is <= 0, a win rate of exactly 0 when the trade log is empty;
\* also when only one date was recorded.
C23_MetricsTotal ==
  (call.op = "calculate_metrics" /\ results # <<>>) =>
    /\ call.err = "none"
    /\ results[1].total_value <= 0 =>
         call.performance_metrics.annual_return.value = <<FromInt(0)>>
    /\ trade_log = <<>> => call.performance_metrics.win_rate = FromInt(0)

DrawdownEnded == call.op = "drawdown"

\* The largest of a non-empty set of fractions.
FracMax(S) == CHOOSE x \in S : \A y \in S : ~FracLess(x, y)

\* The rows of a series dated within a bucket, in order of date.
BucketRows(df, bucket) ==
  LET sorted == SortIndex(df)
  IN SelectRows(sorted, 1,
                {r \in {sorted[i] : i \in 1..Len(sorted)} :
                   bucket.start_date <= r.date /\ r.date <= bucket.end_date})

\* The largest (v_i - v_j) / v_i over the rows i <= j of a bucket, 0 for a
\* bucket without rows.
PeakToTrough(rows) ==
  IF rows = <<>> THEN FromInt(0)
  ELSE FracMax({FracDiv(rows[p[1]].value - rows[p[2]].value, rows[p[1]].value) :
                  p \in {q \in (1..Len(rows)) \X (1..Len(rows)) : q[1] <= q[2]}})

\* The buckets of a drawdown call run from the first date to the last, each
\* starting the day after the one before it ended and lasting
\* interval_months months, the last one cut at the last date.
BucketsCoverSpan ==
  LET b == call.intervals
      sorted == SortIndex(call.df)
  IN /\ Len(b) >= 1
     /\ b[1].start_date = sorted[1].date
     /\ b[Len(b)].end_date = sorted[Len(sorted)].date
     /\ \A i \in 1..Len(b) :
          /\ b[i].start_date <= b[i].end_date
          /\ i < Len(b) =>
               /\ b[i + 1].start_date = b[i].end_date + 1
               /\ b[i].end_date = AddMonths(b[i].start_date, call.interval_months) - 1
          /\ b[i].end_date <= AddMonths(b[i].start_date, call.interval_months) - 1

\* The overall result of a drawdown call is the largest bucket drawdown and
\* the (start, end) of a bucket that has it.
OverallIsLargest ==
  LET b == call.intervals
  IN /\ \A i \in 1..Len(b) : ~FracLess(call.overall_max_dd, b[i].drawdown)
     /\ \E i \in 1..Len(b) :
          /\ b[i].drawdown = call.overall_max_dd
          /\ call.max_row = <<b[i].start_date, b[i].end_date>>

\* C24 as stated: the buckets cover the span, each bucket's drawdown is the
\* largest (v_i - v_j) / v_i over its rows i <= j, 0 without rows, and the
\* overall result is the largest bucket drawdown with its bucket.
C24_DrawdownAsStated ==
  DrawdownEnded =>
    /\ BucketsCoverSpan
    /\ \A i \in 1..Len(call.intervals) :
         call.intervals[i].drawdown
           = PeakToTrough(BucketRows(call.df, call.intervals[i]))
    /\ OverallIsLargest

\* C24: for interval_months >= 1 and a series of positive values, the buckets
\* cover the span from the first to the last date without gap or overlap,
\* each bucket's drawdown is the largest (v_i - v_j) / v_i over its rows
\* i <= j rounded to 4 decimals, 0 without rows, and the overall result is
\* the largest bucket drawdown with the (start, end) of a bucket that has it.
C24_Drawdown ==
  DrawdownEnded =>
    /\ BucketsCoverSpan
    /\ \A i \in 1..Len(call.intervals) :
         call.intervals[i].drawdown
           = Round4(PeakToTrough(BucketRows(call.df, call.intervals[i])))
    /\ OverallIsLargest

\* C24's case: a series over several buckets, one of them without a row,
\* with a fall from 3 to 2 in a bucket that opens at 1.
C24_Witness ==
  /\ DrawdownEnded
  /\ Len(call.intervals) >= 3
  /\ \E i \in 1..Len(call.intervals) :
       BucketRows(call.df, call.intervals[i]) = <<>>
  /\ \E i \in 1..Len(call.intervals) :
       LET rows == BucketRows(call.df, call.intervals[i])
       IN /\ Len(rows) = 3
          /\ rows[1].value = 1 /\ rows[2].value = 3 /\ rows[3].value = 2
  /\ call.overall_max_dd = Frac(3333, Scale)

KellyEnded == call.op = "kelly_criterion"

\* winning_rate / |losing_reward| - losing_rate / winning_reward of a kelly
\* call with rewards other than 0, for a losing reward of l.
KellyFormula(l) ==
  LET losing_rate == IF call.losing_rate = <<>>
                     THEN FracSub(FromInt(1), call.winning_rate)
                     ELSE call.losing_rate[1]
      loss == IF l < 0 THEN 0 - l ELSE l
  IN FracSub(FracDiv(call.winning_rate.num, call.winning_rate.den * loss),
             FracDiv(losing_rate.num, losing_rate.den * call.winning_reward))

\* C25 as stated: kelly_criterion returns 0 when winning_reward is 0, else 1
\* when losing_reward is 0, else
\* winning_rate / |losing_reward| - losing_rate / winning_reward.
C25_KellyAsStated ==
  KellyEnded =>
    call.value = IF call.winning_reward = 0 THEN FromInt(0)
                 ELSE IF call.losing_reward = 0 THEN FromInt(1)
                 ELSE KellyFormula(call.losing_reward)

\* C25: kelly_criterion returns 0 when winning_reward is 0, else 1 when
\* losing_reward is 0, else
\* winning_rate / |losing_reward| - losing_rate / winning_reward rounded to 4
\* decimals; the result for a losing reward of -x is the result for x.
C25_Kelly ==
  KellyEnded =>
    /\ call.value = IF call.winning_reward = 0 THEN FromInt(0)
                    ELSE IF call.losing_reward = 0 THEN FromInt(1)
                    ELSE Round4(KellyFormula(call.losing_reward))
    /\ call.value = KellyCriterion(call.winning_rate, call.winning_reward,
                                   0 - call.losing_reward, call.losing_rate)

\* C25's case: kelly_criterion(0.5, 2, -1), which gives 0.25.
C25_Witness ==
  /\ KellyEnded
  /\ call.winning_rate = Frac(1, 2)
  /\ call.winning_reward = 2
  /\ call.losing_reward = -1
  /\ call.losing_rate = <<>>
  /\ call.value = Frac(1, 4)

\* C26: within a step, after the loop has taken k rows of the order list,
\* the Portfolio has executed exactly those k rows, each once: the trade log
\* has grown by one row per order row taken, in order, also when two rows of
\* the list have the same side and asset.
C26_EachOrderOnce ==
  (InStep /\ pc # "Aborted") =>
    /\ Len(trade_log) = Len(step.trade_log) + (order_idx - 1)
    /\ \A i \in 1..(order_idx - 1) :
         LET logged == trade_log[Len(step.trade_log) + i]
         IN /\ logged.asset = orders[i].asset
            /\ logged.trade_price = orders[i].trade_price
            /\ logged.trade_qty = IF orders[i].side = "BUY"
                                  THEN orders[i].quantity
                                  ELSE 0 - orders[i].quantity

\* The loop has just handed row k of the step's order list to the Portfolio.
RowTaken(k) == InStep /\ order_idx = k + 1 /\ k >= 1

\* C27: in the order list of a step every SELL row comes before every BUY
\* row, and the loop takes the rows in that order: when a BUY row is handed
\* to the Portfolio, every SELL row of the step has been executed and the
\* cash holds the proceeds of all of them.
C27_SellBeforeBuy ==
  /\ InStep =>
       \A i \in 1..Len(orders) : \A j \in 1..Len(orders) :
         (orders[i].side = "SELL" /\ orders[j].side = "BUY") => i < j
  /\ \A k \in 1..Len(orders) :
       (RowTaken(k) /\ orders[k].side = "BUY") =>
         /\ call.op = "buy"
         /\ call.pre.cash = step.cash + SideNotional(orders, "SELL", 1)
                              - SideNotional(SubSeq(orders, 1, k - 1), "BUY", 1)
         /\ \A i \in 1..Len(orders) :
              orders[i].side = "SELL" =>
                \E j \in (Len(step.trade_log) + 1)..Len(call.pre.trade_log) :
                  /\ call.pre.trade_log[j].asset = orders[i].asset
                  /\ call.pre.trade_log[j].trade_qty = 0 - orders[i].quantity

\* C27's case: a step with a SELL and a BUY order, the BUY just executed on
\* the cash the SELL brought in.
C27_Witness ==
  /\ InStep
  /\ Len(orders) = 2
  /\ orders[1].side = "SELL" /\ orders[2].side = "BUY"
  /\ RowTaken(2)
  /\ call.err = "none"
  /\ call.pre.cash > step.cash

\* trade_qty over the rows of symbol s in a trade log, from row i on.
RECURSIVE LoggedShares(_, _, _)
LoggedShares(log, s, i) ==
  IF i > Len(log) THEN 0
  ELSE (IF log[i].asset = s THEN log[i].trade_qty ELSE 0)
         + LoggedShares(log, s, i + 1)

\* C29: after any buy and sell calls on a Portfolio opened with cash c0,
\* whether they succeeded or failed, the cash is c0 minus trade_qty *
\* trade_price over all rows of the trade log, and for every symbol the held
\* quantity is the sum of trade_qty over its rows, the symbol being out of
\* the book exactly when that sum is 0.
C29_Ledger ==
  ~RunBegun =>
    /\ cash = step.cash - Spent(trade_log, 0)
    /\ \A s \in Symbols :
         /\ HeldQuantity(asset, s) = LoggedShares(trade_log, s, 1)
         /\ Holds(asset, s) <=> LoggedShares(trade_log, s, 1) # 0
         /\ Cardinality(RowsOf(asset, s)) <= 1

\* C29's case: a sell of several rows that failed after its first row was
\* executed, on a portfolio that had bought before.
C29_Witness ==
  /\ SellEnded
  /\ ~Succeeded
  /\ call.applied >= 1
  /\ Len(trade_log) >= 2
  /\ \E i \in 1..Len(trade_log) : trade_log[i].trade_qty < 0

\* The rows of symbol s in a table, in the order of the table.
BarsOf(df, s) ==
  SelectRows(df, 1, {r \in {df[i] : i \in 1..Len(df)} : r.symbol = s})

\* C30: the row of a symbol in the Signal of generate_signals(T) - its means
\* and its signal - is computed from the bars of that symbol alone: for any
\* other loaded table that holds the same bars of the symbol, whatever its
\* bars of other symbols, the Signal for T has the same row for the symbol.
C30_PerSymbolSignal ==
  SignalsGenerated =>
    \A s \in Symbols : \A other \in LoadedTables :
      BarsOf(other, s) = BarsOf(bar_df, s) =>
        LET r == GenerateSignals(other, call.date, call.params)
        IN r.err = "none" => BarsOf(r.rows, s) = BarsOf(call.rows, s)

\* C28: the BUY order the position manager emits for a signal has a notional
\* of no more than the cash it was generated on, and Portfolio.buy executes
\* it without raising the insufficient-cash error.
C28_OrdersNeverAbort ==
  (call.op = "buy_signal" /\ call.emitted) =>
    /\ call.quantity * call.close <= 100 * cash
    /\ call.err = "none"

\* C13: the BUY order the position manager emits for a signal has a positive
\* whole quantity, and its notional quantity * price, as the code computes it
\* from the close it sized the order on, is no more than the cash the order
\* list was generated on.
C13_OrderInvariants ==
  (call.op = "buy_signal" /\ call.emitted) =>
    /\ call.quantity \in Nat \ {0}
    /\ \/ call.total_cost.whole < cash
       \/ call.total_cost.whole = cash /\ call.total_cost.above <= 0

====
